---- MODULE Spec2Model ----
(***************************************************************************)
(* A model of foampilot's index package: the OpenFOAM dictionary parser    *)
(* (index/parser.py), the FoamDict path accessors, and the tutorial        *)
(* searcher (index/searcher.py).                                           *)
(*                                                                         *)
(* Python values are tagged records [t |-> tag, v |-> payload].  A dict is *)
(* an insertion-ordered sequence of <<key, value>> pairs with unique keys, *)
(* as Python's dict is.  Token positions are 0-based as in the source.     *)
(***************************************************************************)
EXTENDS Integers, Sequences, FiniteSets, TLC

VARIABLES
    tokens,     \* parser: the token list of the text given to parse_string
    result,     \* parser: what parse_string did with it
    foam,       \* FoamDict under get/set: [foam_file, data]
    nsets,      \* FoamDict: number of set calls made on foam
    last,       \* FoamDict: the last get or set call, with what it returned
    index_file, \* searcher: tutorial_index_v<version>.json in the index directory
    emb_file,   \* searcher: tutorial_embeddings_v<version>.npy in the index directory
    searcher,   \* searcher: the TutorialSearcher's _entries and _embeddings
    found,      \* searcher: the last search call and what it returned
    first_load, \* searcher: the two files as they were when _load first completed
    tree,       \* builder: the directory tree at the tutorials path
    last_build, \* builder: the last build call, what it returned and what went before
    raw_text,   \* parser: the characters of a text before comments are stripped
    agent       \* agent loop: the tool call in hand, what was asked and what was run

vars == <<tokens, result, foam, nsets, last, index_file, emb_file, searcher, found,
          first_load, tree, last_build, raw_text,
          agent>>

parser_vars == <<raw_text, tokens, result, foam, nsets, last>>
search_vars == <<index_file, emb_file, searcher, found, first_load>>
build_vars == <<tree, last_build>>
agent_vars == <<agent>>

(***************************************************************************)
(* Bounds of the model.                                                    *)
(***************************************************************************)
MaxTokens == 5
MaxSets == 2
MaxEntries == 2
MaxTopN == 2
MaxBuilds == 2
MaxPathLen == 3

(***************************************************************************)
(* Python values.                                                          *)
(***************************************************************************)
VStr(s)   == [t |-> "str",   v |-> s]
VBool(b)  == [t |-> "bool",  v |-> b]
VInt(n)   == [t |-> "int",   v |-> n]
VFloat(s) == [t |-> "float", v |-> s]
VList(xs) == [t |-> "list",  v |-> xs]
VDict(ps) == [t |-> "dict",  v |-> ps]
PyNone    == [t |-> "None",  v |-> "None"]

IsDict(x) == x.t = "dict"

EmptyDict == VDict(<<>>)

DictKeys(d) == {d.v[i][1] : i \in 1..Len(d.v)}

DictHas(d, k) == k \in DictKeys(d)

DictIndex(d, k) == CHOOSE i \in 1..Len(d.v) : d.v[i][1] = k

\* d[k]
DictAt(d, k) == d.v[DictIndex(d, k)][2]

\* d.get(k, default)
DictGet(d, k, default) == IF DictHas(d, k) THEN DictAt(d, k) ELSE default

\* d[k] = x : an existing key keeps its place, a new key goes last
DictPut(d, k, x) ==
    IF DictHas(d, k)
    THEN VDict([d.v EXCEPT ![DictIndex(d, k)] = <<k, x>>])
    ELSE VDict(Append(d.v, <<k, x>>))

\* d.pop(k, ...) : the mapping left behind
DictWithout(d, k) ==
    IF DictHas(d, k)
    THEN LET i == DictIndex(d, k)
         IN  VDict(SubSeq(d.v, 1, i - 1) \o SubSeq(d.v, i + 1, Len(d.v)))
    ELSE d

(***************************************************************************)
(* str() of a Python value, as _parse_value applies it to an embedded list *)
(***************************************************************************)
Digits == <<"0", "1", "2", "3", "4", "5", "6", "7", "8", "9">>

RECURSIVE NatStr(_)
NatStr(n) == IF n < 10 THEN Digits[n + 1]
             ELSE NatStr(n \div 10) \o Digits[(n % 10) + 1]

IntStr(n) == IF n < 0 THEN "-" \o NatStr(-n) ELSE NatStr(n)

RECURSIVE PyRepr(_), PyReprItems(_), PyReprPairs(_)
PyRepr(x) ==
    CASE x.t = "str"   -> "'" \o x.v \o "'"
      [] x.t = "bool"  -> IF x.v THEN "True" ELSE "False"
      [] x.t = "int"   -> IntStr(x.v)
      [] x.t = "float" -> x.v
      [] x.t = "None"  -> "None"
      [] x.t = "list"  -> "[" \o PyReprItems(x.v) \o "]"
      [] x.t = "dict"  -> "{" \o PyReprPairs(x.v) \o "}"

PyReprItems(xs) ==
    IF xs = <<>> THEN ""
    ELSE IF Len(xs) = 1 THEN PyRepr(xs[1])
    ELSE PyRepr(xs[1]) \o ", " \o PyReprItems(Tail(xs))

PyReprPairs(ps) ==
    IF ps = <<>> THEN ""
    ELSE LET one == "'" \o ps[1][1] \o "': " \o PyRepr(ps[1][2])
         IN  IF Len(ps) = 1 THEN one ELSE one \o ", " \o PyReprPairs(Tail(ps))

(***************************************************************************)
(* Tokens.  A token is the string _RE_TOKEN matched; what the code asks of *)
(* its characters is tabulated for the tokens the model uses.              *)
(***************************************************************************)
QuotedInner == [q \in {"\"a\"", "\"3\"", "\"on\"", "\" icoFoam \""} |->
                   CASE q = "\"a\"" -> "a" [] q = "\"3\"" -> "3" [] q = "\"on\"" -> "on"
                     [] q = "\" icoFoam \"" -> " icoFoam "]

IsQuotedToken(tok) == tok \in DOMAIN QuotedInner

\* tok.strip('"')
StripQuotes(tok) == IF IsQuotedToken(tok) THEN QuotedInner[tok] ELSE tok

\* tok.startswith("#include")
IsInclude(tok) == tok \in {"#include", "#includeEtc"}

LowerTable == [s \in {"On", "TRUE", "Off", "No", "icoFoam", "rhoFoam", "foamRun",
                        "incompressibleVoF"} |->
                  CASE s = "On" -> "on" [] s = "TRUE" -> "true"
                    [] s = "Off" -> "off" [] s = "No" -> "no"
                    [] s = "icoFoam" -> "icofoam" [] s = "rhoFoam" -> "rhofoam"
                    [] s = "foamRun" -> "foamrun"
                    [] s = "incompressibleVoF" -> "incompressiblevof"]

\* raw.lower()
Lower(s) == IF s \in DOMAIN LowerTable THEN LowerTable[s] ELSE s

\* the strings _RE_NUMBER matches, with int(raw) or the repr of float(raw)
IntTokens == [s \in {"0", "1", "2", "3", "-1", "+3"} |->
                 CASE s = "0" -> 0 [] s = "1" -> 1 [] s = "2" -> 2
                   [] s = "3" -> 3 [] s = "-1" -> -1 [] s = "+3" -> 3]

FloatTokens == [s \in {"1e-06", "0.5", "1.", ".5", "1E5"} |->
                   CASE s = "1e-06" -> "1e-06" [] s = "0.5" -> "0.5" [] s = "1." -> "1.0"
                     [] s = ".5" -> "0.5" [] s = "1E5" -> "100000.0"]

(***************************************************************************)
(* _coerce, applied to the joined parts of a value run (raw is their join  *)
(* with single spaces).  A part begins (ends) with a double quote exactly  *)
(* when it is a quoted token: bare words hold no quote and str(list) is    *)
(* bracketed.                                                              *)
(***************************************************************************)
RECURSIVE JoinSpace(_)
JoinSpace(parts) ==
    IF parts = <<>> THEN ""
    ELSE IF Len(parts) = 1 THEN parts[1]
    ELSE parts[1] \o " " \o JoinSpace(Tail(parts))

\* raw[1:-1] when raw starts and ends with a double quote
DropEnds(parts) ==
    IF Len(parts) = 1 THEN QuotedInner[parts[1]]
    ELSE LET n == Len(parts)
         IN  JoinSpace(<<QuotedInner[parts[1]] \o "\"">>
                       \o SubSeq(parts, 2, n - 1)
                       \o <<"\"" \o QuotedInner[parts[n]]>>)

\* _coerce with the quotes stripped first and the rest of the tests applied to
\* what was inside them
coerce_parts_unquoted(parts) ==
    LET quoted == parts # <<>> /\ IsQuotedToken(parts[1]) /\ IsQuotedToken(parts[Len(parts)])
        raw    == IF quoted THEN DropEnds(parts) ELSE JoinSpace(parts)
    IN  IF parts = <<>> THEN VStr("")
        ELSE IF Lower(raw) \in {"true", "on", "yes"} THEN VBool(TRUE)
        ELSE IF Lower(raw) \in {"false", "off", "no"} THEN VBool(FALSE)
        ELSE IF raw \in DOMAIN IntTokens THEN VInt(IntTokens[raw])
        ELSE IF raw \in DOMAIN FloatTokens THEN VFloat(FloatTokens[raw])
        ELSE VStr(raw)

coerce_parts(parts) ==
    LET raw == JoinSpace(parts)
    IN  IF parts = <<>> THEN VStr("")
        ELSE IF IsQuotedToken(parts[1]) /\ IsQuotedToken(parts[Len(parts)])
             THEN VStr(DropEnds(parts))
        ELSE IF Lower(raw) \in {"true", "on", "yes"} THEN VBool(TRUE)
        ELSE IF Lower(raw) \in {"false", "off", "no"} THEN VBool(FALSE)
        ELSE IF raw \in DOMAIN IntTokens THEN VInt(IntTokens[raw])
        ELSE IF raw \in DOMAIN FloatTokens THEN VFloat(FloatTokens[raw])
        ELSE VStr(raw)

coerce(raw) == coerce_parts(<<raw>>)

(***************************************************************************)
(* The recursive descent.  Every procedure returns the new cursor and the  *)
(* value it built; raised is set when an index past the end of the token   *)
(* list was read (Python's IndexError), which ends the whole parse.        *)
(***************************************************************************)
At(toks, pos) == toks[pos + 1]

Ret(pos, val) == [pos |-> pos, val |-> val, raised |-> FALSE]

Raise(pos) == [pos |-> pos, val |-> PyNone, raised |-> TRUE]

\* if tokens[pos] == tok: pos += 1, read without the bounds test
consume_unguarded(toks, pos, tok) ==
    IF pos >= Len(toks) THEN Raise(pos)
    ELSE IF At(toks, pos) = tok THEN Ret(pos + 1, PyNone) ELSE Ret(pos, PyNone)

\* if pos < len(tokens) and tokens[pos] == tok: pos += 1
consume_optional(toks, pos, tok) ==
    IF pos < Len(toks) /\ At(toks, pos) = tok
    THEN Ret(pos + 1, PyNone)
    ELSE Ret(pos, PyNone)

RECURSIVE parse_block_contents(_, _), parse_value(_, _), parse_list(_, _)
RECURSIVE block_loop(_, _, _), value_loop(_, _, _), list_loop(_, _, _)

\* entries[key] = the value parsed, the cursor where the closer was looked for
entry_put(c, parsed, key, entries) ==
    IF c.raised THEN c ELSE Ret(c.pos, DictPut(entries, key, parsed.val))

\* the value parsed, then its optional closer, then the assignment
entry_after(toks, parsed, closer, key, entries) ==
    IF parsed.raised THEN parsed
    ELSE entry_put(consume_optional(toks, parsed.pos, closer), parsed, key, entries)

\* block_entry without the branch for ';': a bare keyword is read as a value
block_entry_no_bare(toks, pos, key, entries) ==
    IF At(toks, pos) = "{"
    THEN entry_after(toks, parse_block_contents(toks, pos + 1), "}", key, entries)
    ELSE IF At(toks, pos) = "("
    THEN entry_after(toks, parse_list(toks, pos + 1), ";", key, entries)
    ELSE entry_after(toks, parse_value(toks, pos), ";", key, entries)

\* one key and its value, the cursor on the token after the key
block_entry(toks, pos, key, entries) ==
    IF At(toks, pos) = "{"
    THEN entry_after(toks, parse_block_contents(toks, pos + 1), "}", key, entries)
    ELSE IF At(toks, pos) = "("
    THEN entry_after(toks, parse_list(toks, pos + 1), ";", key, entries)
    ELSE IF At(toks, pos) = ";"
    THEN Ret(pos + 1, DictPut(entries, key, VBool(TRUE)))
    ELSE entry_after(toks, parse_value(toks, pos), ";", key, entries)

\* the loop goes on from where the entry ended
block_next(toks, e) == IF e.raised THEN e ELSE block_loop(toks, e.pos, e.val)

\* the while loop of _parse_block_contents
block_loop(toks, pos, entries) ==
    IF ~(pos < Len(toks)) THEN Ret(pos, entries)
    ELSE IF At(toks, pos) = "}" THEN Ret(pos, entries)
    ELSE IF At(toks, pos) = ";" THEN block_loop(toks, pos + 1, entries)
    ELSE IF IsInclude(At(toks, pos))
    THEN block_loop(toks, IF pos + 1 < Len(toks) THEN pos + 2 ELSE pos + 1, entries)
    ELSE IF pos + 1 >= Len(toks) THEN Ret(pos + 1, entries)
    ELSE block_next(toks, block_entry(toks, pos + 1, StripQuotes(At(toks, pos)), entries))

parse_block_contents(toks, pos) == block_loop(toks, pos, EmptyDict)

\* value_parts.append(str(lst)) for an embedded list
value_next(toks, lst, value_parts) ==
    IF lst.raised THEN lst
    ELSE value_loop(toks, lst.pos, Append(value_parts, PyRepr(lst.val)))

\* the while loop of _parse_value, then the join and the coercion
value_loop(toks, pos, value_parts) ==
    IF pos < Len(toks) /\ At(toks, pos) \notin {";", "}", "{"}
    THEN IF At(toks, pos) = "("
         THEN value_next(toks, parse_list(toks, pos + 1), value_parts)
         ELSE value_loop(toks, pos + 1, Append(value_parts, At(toks, pos)))
    ELSE Ret(pos, coerce_parts(value_parts))

parse_value(toks, pos) == value_loop(toks, pos, <<>>)

\* items.append(sub) for a nested list
list_next(toks, sub, items) ==
    IF sub.raised THEN sub ELSE list_loop(toks, sub.pos, Append(items, sub.val))

\* items.append(sub_dict), the cursor where the closing brace was looked for
list_put(toks, c, sub, items) ==
    IF c.raised THEN c ELSE list_loop(toks, c.pos, Append(items, sub.val))

\* a mapping inside a list, then its optional closing brace
list_after(toks, sub, items) ==
    IF sub.raised THEN sub
    ELSE list_put(toks, consume_optional(toks, sub.pos, "}"), sub, items)

\* list_loop with "pos += 1" after the loop run without "if pos < len(tokens)"
list_loop_unguarded(toks, pos, items) ==
    IF pos < Len(toks) /\ At(toks, pos) # ")"
    THEN IF At(toks, pos) = "("
         THEN list_next(toks, parse_list(toks, pos + 1), items)
         ELSE IF At(toks, pos) = "{"
         THEN list_after(toks, parse_block_contents(toks, pos + 1), items)
         ELSE IF At(toks, pos) = ";" THEN list_loop(toks, pos + 1, items)
         ELSE list_loop(toks, pos + 1, Append(items, coerce(At(toks, pos))))
    ELSE Ret(pos + 1, VList(items))

\* the while loop of _parse_list, then the closing parenthesis
list_loop(toks, pos, items) ==
    IF pos < Len(toks) /\ At(toks, pos) # ")"
    THEN IF At(toks, pos) = "("
         THEN list_next(toks, parse_list(toks, pos + 1), items)
         ELSE IF At(toks, pos) = "{"
         THEN list_after(toks, parse_block_contents(toks, pos + 1), items)
         ELSE IF At(toks, pos) = ";" THEN list_loop(toks, pos + 1, items)
         ELSE list_loop(toks, pos + 1, Append(items, coerce(At(toks, pos))))
    ELSE Ret(IF pos < Len(toks) THEN pos + 1 ELSE pos, VList(items))

parse_list(toks, pos) == list_loop(toks, pos, <<>>)

(***************************************************************************)
(* parse_string from the token list on: the FoamFile block is popped out   *)
(* of the top-level entries and becomes the header when it is a mapping.   *)
(***************************************************************************)
FoamDict(foam_file, data) == [foam_file |-> foam_file, data |-> data]

\* foam_file_data = entries.pop("FoamFile", {}); the header is it when a mapping
header_of(foam_file_data) == IF IsDict(foam_file_data) THEN foam_file_data ELSE EmptyDict

\* the FoamDict made of the top-level entries
parsed_document(r) ==
    IF r.raised
    THEN [status |-> "raised", pos |-> r.pos, doc |-> FoamDict(EmptyDict, EmptyDict)]
    ELSE [status |-> "returned", pos |-> r.pos,
          doc |-> FoamDict(header_of(DictGet(r.val, "FoamFile", EmptyDict)),
                           DictWithout(r.val, "FoamFile"))]

parse_string(toks) == parsed_document(parse_block_contents(toks, 0))

(***************************************************************************)
(* What the text itself says, read off the token list without the parser:  *)
(* the bracket structure and the keys at nesting depth 0.                  *)
(***************************************************************************)
Openers == {"{", "("}
Closers == {"}", ")"}
CloserOf(tok) == IF tok = "{" THEN "}" ELSE ")"

\* the openers still open after the first n tokens, innermost last; a closer
\* that matches no open opener is counted in stray
RECURSIVE Scan(_, _)
Scan(toks, n) ==
    IF n = 0 THEN [open |-> <<>>, stray |-> 0]
    ELSE LET s   == Scan(toks, n - 1)
             tok == toks[n]
         IN  IF tok \in Openers THEN [s EXCEPT !.open = Append(@, tok)]
             ELSE IF tok \in Closers
             THEN IF s.open # <<>> /\ CloserOf(s.open[Len(s.open)]) = tok
                  THEN [s EXCEPT !.open = SubSeq(@, 1, Len(@) - 1)]
                  ELSE [s EXCEPT !.stray = @ + 1]
             ELSE s

Depth(toks, n) == Len(Scan(toks, n).open)

\* some '{' or '(' has no matching closer before the end of input
HasUnclosed(toks) == Scan(toks, Len(toks)).open # <<>>

Balanced(toks) ==
    LET s == Scan(toks, Len(toks)) IN s.open = <<>> /\ s.stray = 0

IsWord(tok) == tok \notin Openers \cup Closers \cup {";"} /\ ~IsInclude(tok)

\* positions (1-based) of the keys of the text at depth 0: a word that opens
\* the text or follows a ';' or a closing '}' at depth 0, and has a token after it
TopLevelKeyAt(toks, i) ==
    /\ i < Len(toks)
    /\ IsWord(toks[i])
    /\ Depth(toks, i) = 0
    /\ \/ i = 1
       \/ toks[i - 1] \in {";", "}"} /\ (i = 2 \/ ~IsInclude(toks[i - 2]))

TopLevelKeys(toks) ==
    {StripQuotes(toks[i]) : i \in {j \in 1..Len(toks) : TopLevelKeyAt(toks, j)}}

(***************************************************************************)
(* Parser specification: a text (as its token list) is given, and          *)
(* parse_string is called on it.                                           *)
(***************************************************************************)
TokenAlphabet == {"{", "}", "(", ")", ";", "a", "b", "FoamFile"}

RECURSIVE TokenLists(_)
TokenLists(n) ==
    IF n = 0 THEN {<<>>}
    ELSE LET shorter == TokenLists(n - 1)
         IN  shorter \cup {Append(ts, tok) : ts \in {x \in shorter : Len(x) = n - 1},
                                             tok \in TokenAlphabet}

\* the searcher part of the state, before any file or searcher exists
Absent == [exists |-> FALSE, ok |-> TRUE, rows |-> <<>>]
FreshSearcher == [entries |-> PyNone, embeddings |-> PyNone]
NoSearch == [status |-> "none"]
NoLoad == [done |-> FALSE, index_file |-> Absent, emb_file |-> Absent]

SearchIdle ==
    /\ index_file = Absent
    /\ emb_file = Absent
    /\ searcher = FreshSearcher
    /\ found = NoSearch
    /\ first_load = NoLoad

\* the builder part of the state, before any tree is looked at
NoTree == [exists |-> FALSE]
NoBuild == [status |-> "none", n |-> 0]

BuildIdle ==
    /\ tree = NoTree
    /\ last_build = NoBuild

\* no text was given as characters
TextIdle == raw_text = <<>>

\* the agent loop, before any tool call
NoAgent == [status |-> "none"]
AgentIdle == agent = NoAgent

NotParsed == [status |-> "none", pos |-> 0, doc |-> FoamDict(EmptyDict, EmptyDict)]

NoFoam == FoamDict(EmptyDict, EmptyDict)
NoLast == [op |-> "none"]

InitParse ==
    /\ tokens \in TokenLists(MaxTokens)
    /\ result = NotParsed
    /\ foam = NoFoam
    /\ nsets = 0
    /\ last = NoLast
    /\ SearchIdle
    /\ BuildIdle
    /\ TextIdle
    /\ AgentIdle

ParseString ==
    /\ result.status = "none"
    /\ result' = parse_string(tokens)
    /\ UNCHANGED <<raw_text, tokens, foam, nsets, last>>
    /\ UNCHANGED <<search_vars, build_vars, agent_vars>>

NextParse == ParseString

SpecParse == InitParse /\ [][NextParse]_vars

FoamFileBlocks(toks) ==
    {i \in 1..Len(toks) : TopLevelKeyAt(toks, i) /\ toks[i] = "FoamFile"
                          /\ toks[i + 1] = "{"}

\* C2: for a text with balanced braces and parentheses parse does not raise,
\* the entries of the text's FoamFile block are the header, FoamFile is not a
\* key of body, and every other top-level key of the text is a key of body.
C2_BalancedPartition ==
    (result.status # "none" /\ Balanced(tokens)) =>
        /\ result.status = "returned"
        /\ ~DictHas(result.doc.data, "FoamFile")
        /\ \A k \in TopLevelKeys(tokens) \ {"FoamFile"} : DictHas(result.doc.data, k)
        /\ \A i \in FoamFileBlocks(tokens) :
               "FoamFile" \notin {StripQuotes(tokens[j]) :
                                    j \in {n \in 1..Len(tokens) :
                                             n # i /\ TopLevelKeyAt(tokens, n)}}
               => result.doc.foam_file = parse_block_contents(tokens, i + 1).val

(***************************************************************************)
(* FoamDict.get and FoamDict.set.  key_path.split(".") is a bijection      *)
(* between path strings and non-empty lists of dot-free segments; a path   *)
(* is given as that list ("" is <<"">>, "a..b" is <<"a", "", "b">>).       *)
(***************************************************************************)
\* x is y, for the values of a document and a caller's default
Is(x, y) == x = y

\* bool(x) is False
Falsy(x) ==
    \/ x.t = "None"
    \/ x.t = "bool" /\ ~x.v
    \/ x.t = "int" /\ x.v = 0
    \/ x.t = "str" /\ x.v = ""
    \/ x.t \in {"list", "dict"} /\ x.v = <<>>

RECURSIVE get_walk(_, _, _)
get_walk(node, parts, default) ==
    IF parts = <<>> THEN node
    ELSE IF ~IsDict(node) THEN default
    ELSE LET nxt == DictGet(node, parts[1], default)
         IN  IF Is(nxt, default) THEN default
             ELSE get_walk(nxt, Tail(parts), default)

\* get with "if not node" written for "if node is default"
RECURSIVE get_walk_falsy(_, _, _)
get_walk_falsy(node, parts, default) ==
    IF parts = <<>> THEN node
    ELSE IF ~IsDict(node) THEN default
    ELSE LET nxt == DictGet(node, parts[1], default)
         IN  IF Falsy(nxt) THEN default
             ELSE get_walk_falsy(nxt, Tail(parts), default)

get_falsy(doc, parts, default) == get_walk_falsy(doc.data, parts, default)

get(doc, parts, default) == get_walk(doc.data, parts, default)

\* the mapping node after the loop over parts[:-1] and the final assignment
RECURSIVE set_walk(_, _, _)
set_walk(node, parts, value) ==
    IF Len(parts) = 1 THEN DictPut(node, parts[1], value)
    ELSE LET part  == parts[1]
             child == IF ~DictHas(node, part) \/ ~IsDict(DictAt(node, part))
                      THEN EmptyDict
                      ELSE DictAt(node, part)
         IN  DictPut(node, part, set_walk(child, Tail(parts), value))

set(doc, parts, value) == [doc EXCEPT !.data = set_walk(doc.data, parts, value)]

(***************************************************************************)
(* FoamDict specification: a parsed document, then set and get calls.      *)
(***************************************************************************)
InitialTexts ==
    { <<>>,
      <<"a", "1", ";">>,
      <<"FoamFile", "{", "}", "a", "(", "on", ")", ";">>,
      <<"a", "{", "b", "0.5", ";", "}">> }

PathSet ==
    { <<"a">>, <<"">>, <<"a", "b">>, <<"a", "b", "a">>, <<"b", "", "a">> }

ValueSet == { VInt(3), PyNone, EmptyDict }

DefaultSet == { PyNone, VStr("fallback") }

InitDict ==
    /\ tokens \in InitialTexts
    /\ result = parse_string(tokens)
    /\ foam = result.doc
    /\ nsets = 0
    /\ last = NoLast
    /\ SearchIdle
    /\ BuildIdle
    /\ TextIdle
    /\ AgentIdle

SetCall ==
    /\ nsets < MaxSets
    /\ \E parts \in PathSet, value \in ValueSet :
          /\ foam' = set(foam, parts, value)
          /\ last' = [op |-> "set", path |-> parts, value |-> value, before |-> foam]
    /\ nsets' = nsets + 1
    /\ UNCHANGED <<raw_text, tokens, result>>
    /\ UNCHANGED <<search_vars, build_vars, agent_vars>>

GetCall ==
    /\ last.op # "get"
    /\ \E parts \in PathSet, default \in DefaultSet :
          last' = [op |-> "get", path |-> parts, default |-> default,
                   got |-> get(foam, parts, default), prev |-> last]
    /\ UNCHANGED <<raw_text, tokens, result, foam, nsets>>
    /\ UNCHANGED <<search_vars, build_vars, agent_vars>>

NextDict == SetCall \/ GetCall

SpecDict == InitDict /\ [][NextDict]_vars

\* the last call was a get that came right after a set of the same path
GetAfterSet ==
    /\ last.op = "get"
    /\ last.prev.op = "set"
    /\ last.prev.path = last.path

\* C3: get(D, k) called immediately after set(D, k, v) returns v, whatever the
\* body held before (a scalar or a list on a prefix of the path included).
C3_GetAfterSet == GetAfterSet => last.got = last.prev.value

\* C3 witness: set went through a prefix that held a scalar or a list, and the
\* get that followed returned the value set.
C3_Witness ==
    /\ GetAfterSet
    /\ Len(last.path) > 1
    /\ DictHas(last.prev.before.data, last.path[1])
    /\ ~IsDict(DictAt(last.prev.before.data, last.path[1]))
    /\ last.got = last.prev.value
    /\ last.got # last.default

(***************************************************************************)
(* The tutorial searcher.  An optional argument is PyNone or a tagged      *)
(* value; a corpus entry is a record [path, solver, physics_tags,          *)
(* mesh_type, description] of strings (physics_tags a list of strings),    *)
(* the fields search reads.  A score is a Python float.                    *)
(***************************************************************************)
Truthy(x) == ~Falsy(x)

Min(a, b) == IF a <= b THEN a ELSE b
Max(a, b) == IF a >= b THEN a ELSE b

(***************************************************************************)
(* Python's float: IEEE-754 binary64, round to nearest, ties to even.  A   *)
(* float is [neg, m, e] with value (-1)^neg * m * 2^e; m is a natural      *)
(* number held as its base-2^15 digits, least significant first, and is    *)
(* either zero (the empty sequence) or exactly Precision bits long.  The   *)
(* values a score takes are far from the subnormal and the overflow range. *)
(***************************************************************************)
Precision == 53
LimbBits == 15
Base == 2^LimbBits

Limb(a, i) == IF i <= Len(a) THEN a[i] ELSE 0

\* the digits without leading (most significant) zeros
RECURSIVE BNorm(_)
BNorm(a) ==
    IF a = <<>> \/ a[Len(a)] # 0 THEN a ELSE BNorm(SubSeq(a, 1, Len(a) - 1))

\* the digits of a + b + carry from digit i on
RECURSIVE BAddFrom(_, _, _, _)
BAddFrom(a, b, i, carry) ==
    IF i > Len(a) /\ i > Len(b) THEN (IF carry = 0 THEN <<>> ELSE <<carry>>)
    ELSE LET t == Limb(a, i) + Limb(b, i) + carry
         IN  <<t % Base>> \o BAddFrom(a, b, i + 1, t \div Base)

BAdd(a, b) == BAddFrom(a, b, 1, 0)

\* the digits of a * k + carry from digit i on
RECURSIVE BMulSmallFrom(_, _, _, _)
BMulSmallFrom(a, k, i, carry) ==
    IF i > Len(a) THEN (IF carry = 0 THEN <<>> ELSE <<carry>>)
    ELSE LET t == a[i] * k + carry
         IN  <<t % Base>> \o BMulSmallFrom(a, k, i + 1, t \div Base)

\* a * k for 0 <= k < Base
BMulSmall(a, k) == IF k = 0 THEN <<>> ELSE BMulSmallFrom(a, k, 1, 0)

RECURSIVE BMulFrom(_, _, _)
BMulFrom(a, b, j) ==
    IF j > Len(b) THEN <<>>
    ELSE LET rest == BMulFrom(a, b, j + 1)
         IN  BAdd(BMulSmall(a, b[j]), IF rest = <<>> THEN <<>> ELSE <<0>> \o rest)

BMul(a, b) == BMulFrom(a, b, 1)

\* quotient digits 1..i and remainder of (rem * Base^i + digits 1..i of a) by n
RECURSIVE BDivSmallFrom(_, _, _, _)
BDivSmallFrom(a, n, i, rem) ==
    IF i = 0 THEN [q |-> <<>>, r |-> rem]
    ELSE LET t    == rem * Base + a[i]
             rest == BDivSmallFrom(a, n, i - 1, t % n)
         IN  [q |-> Append(rest.q, t \div n), r |-> rest.r]

\* quotient and remainder of a by n, 1 <= n <= Base
BDivSmall(a, n) ==
    LET d == BDivSmallFrom(a, n, Len(a), 0) IN [q |-> BNorm(d.q), r |-> d.r]

RECURSIVE BitLen(_)
BitLen(x) == IF x = 0 THEN 0 ELSE 1 + BitLen(x \div 2)

\* the number of bits of a
BBits(a) ==
    IF a = <<>> THEN 0 ELSE LimbBits * (Len(a) - 1) + BitLen(a[Len(a)])

\* a * 2^s
BShl(a, s) ==
    IF a = <<>> THEN <<>>
    ELSE [i \in 1..(s \div LimbBits) |-> 0] \o BMulSmall(a, 2^(s % LimbBits))

\* a \div 2^s
BShr(a, s) ==
    BDivSmall(SubSeq(a, (s \div LimbBits) + 1, Len(a)), 2^(s % LimbBits)).q

\* bit i of a, bit 0 the least significant
Bit(a, i) == (Limb(a, (i \div LimbBits) + 1) \div 2^(i % LimbBits)) % 2

\* a % 2^s # 0
BLowNonZero(a, s) ==
    \/ \E i \in 1..Min(s \div LimbBits, Len(a)) : a[i] # 0
    \/ Limb(a, (s \div LimbBits) + 1) % 2^(s % LimbBits) # 0

BLess(a, b) ==
    IF Len(a) # Len(b) THEN Len(a) < Len(b)
    ELSE \E i \in 1..Len(a) :
            /\ a[i] < b[i]
            /\ \A j \in (i + 1)..Len(a) : a[j] = b[j]

FZero == [neg |-> FALSE, m |-> <<>>, e |-> 0]

\* the float nearest to m * 2^e, m > 0; sticky says that the exact value is a
\* little more than m * 2^e (less than one unit of m more)
Round(m, sticky, e) ==
    LET len == BBits(m)
    IN  IF len <= Precision
        THEN [neg |-> FALSE, m |-> BShl(m, Precision - len), e |-> e - (Precision - len)]
        ELSE LET s     == len - Precision
                 q     == BShr(m, s)
                 guard == Bit(m, s - 1) = 1
                 rest  == sticky \/ BLowNonZero(m, s - 1)
                 odd   == Bit(m, s) = 1
                 q1    == IF guard /\ (rest \/ odd) THEN BAdd(q, <<1>>) ELSE q
             IN  IF BBits(q1) > Precision
                 THEN [neg |-> FALSE, m |-> BShr(q1, 1), e |-> e + s + 1]
                 ELSE [neg |-> FALSE, m |-> q1, e |-> e + s]

\* float(k) for an int k, |k| < Base^2
FFromInt(k) ==
    LET abs == IF k < 0 THEN -k ELSE k
    IN  IF k = 0 THEN FZero
        ELSE [Round(BNorm(<<abs % Base, abs \div Base>>), FALSE, 0) EXCEPT !.neg = k < 0]

\* x * y
FMul(x, y) ==
    IF x.m = <<>> \/ y.m = <<>> THEN FZero
    ELSE [Round(BMul(x.m, y.m), FALSE, x.e + y.e) EXCEPT !.neg = x.neg # y.neg]

\* x / n for an int n, 1 <= n <= Base (the int is converted exactly)
FDivInt(x, n) ==
    IF x.m = <<>> THEN FZero
    ELSE LET d == BDivSmall(BShl(x.m, 4 * LimbBits), n)
         IN  [Round(d.q, d.r # 0, x.e - 4 * LimbBits) EXCEPT !.neg = x.neg]

\* x + y for x >= 0 and y >= 0, as every term of a score is
FAdd(x, y) ==
    IF x.m = <<>> THEN y
    ELSE IF y.m = <<>> THEN x
    ELSE LET e == Min(x.e, y.e)
         IN  Round(BAdd(BShl(x.m, x.e - e), BShl(y.m, y.e - e)), FALSE, e)

\* x < y
FLess(x, y) ==
    LET MagLess(a, b) ==
            IF a.m = <<>> THEN b.m # <<>>
            ELSE IF b.m = <<>> THEN FALSE
            ELSE IF a.e # b.e THEN a.e < b.e
            ELSE BLess(a.m, b.m)
    IN  IF x.neg # y.neg THEN x.neg
        ELSE IF x.neg THEN MagLess(y, x)
        ELSE MagLess(x, y)

\* min(x, y) and max(x, y): the first argument unless the second is smaller (larger)
FMin(x, y) == IF FLess(y, x) THEN y ELSE x
FMax(x, y) == IF FLess(x, y) THEN y ELSE x

\* the float a decimal literal k/10 denotes: the one nearest to k/10
Tenths(k) == FDivInt(FFromInt(k), 10)

\* the weights, and the literals 0.5, 1.0 and 0.0 of _score
W_SOLVER == Tenths(4)
W_PHYSICS == Tenths(3)
W_KEYWORD == Tenths(2)
W_SEMANTIC == Tenths(1)
FHalf == FDivInt(FFromInt(1), 2)
FOne == FFromInt(1)

\* the characters of the strings that take part in keyword matching
Chars ==
    [s \in {"cav", "pitz", "drop", "Ico", "simple", "inter", "inc", "lam", "tur",
            "mul", "CAV", "zz", "c", "ico", ""} |->
        CASE s = "cav"    -> <<"c", "a", "v">>
          [] s = "pitz"   -> <<"p", "i", "t", "z">>
          [] s = "drop"   -> <<"d", "r", "o", "p">>
          [] s = "Ico"    -> <<"I", "c", "o">>
          [] s = "simple" -> <<"s", "i", "m", "p", "l", "e">>
          [] s = "inter"  -> <<"i", "n", "t", "e", "r">>
          [] s = "inc"    -> <<"i", "n", "c">>
          [] s = "lam"    -> <<"l", "a", "m">>
          [] s = "tur"    -> <<"t", "u", "r">>
          [] s = "mul"    -> <<"m", "u", "l">>
          [] s = "CAV"    -> <<"C", "A", "V">>
          [] s = "zz"     -> <<"z", "z">>
          [] s = "c"      -> <<"c">>
          [] s = "ico"    -> <<"i", "c", "o">>
          [] s = ""       -> <<>>]

LowerChars == [c \in {"C", "A", "V", "I", "O", "N", "T", "R", "U", "E"} |->
                  CASE c = "C" -> "c" [] c = "A" -> "a" [] c = "V" -> "v" [] c = "I" -> "i"
                    [] c = "O" -> "o" [] c = "N" -> "n" [] c = "T" -> "t"
                    [] c = "R" -> "r" [] c = "U" -> "u" [] c = "E" -> "e"]

\* s.lower(), on characters
LowerSeq(cs) ==
    [i \in 1..Len(cs) |-> IF cs[i] \in DOMAIN LowerChars THEN LowerChars[cs[i]] ELSE cs[i]]

\* " ".join(strings), on characters
RECURSIVE JoinChars(_)
JoinChars(strs) ==
    IF strs = <<>> THEN <<>>
    ELSE IF Len(strs) = 1 THEN Chars[strs[1]]
    ELSE Chars[strs[1]] \o <<" ">> \o JoinChars(Tail(strs))

\* needle in hay
Contains(hay, needle) ==
    \E i \in 0..(Len(hay) - Len(needle)) : SubSeq(hay, i + 1, i + Len(needle)) = needle

InList(x, xs) == \E i \in 1..Len(xs) : xs[i] = x

(***************************************************************************)
(* embeddings.cosine_similarity.  Vectors are integer pairs whose norms    *)
(* are whole numbers, so that the float32 dot product and norms are exact  *)
(* and the one rounding is that of the final division.                     *)
(***************************************************************************)
Dot(a, b) == a[1] * b[1] + a[2] * b[2]

ISqrt(n) == CHOOSE r \in 0..n : r * r = n

cosine_similarity(a, b) ==
    LET dot  == Dot(a, b)
        norm == ISqrt(Dot(a, a)) * ISqrt(Dot(b, b))
    IN  IF norm > 0 THEN FDivInt(FFromInt(dot), norm) ELSE FZero

(***************************************************************************)
(* _hard_filter: the (original index, entry) pairs passing the filters.    *)
(***************************************************************************)
RECURSIVE hard_filter_from(_, _, _, _, _)
hard_filter_from(entries, idx, solver, physics_tags, require_mesh_type) ==
    IF idx >= Len(entries) THEN <<>>
    ELSE LET entry == entries[idx + 1]
             rest  == hard_filter_from(entries, idx + 1, solver, physics_tags,
                                       require_mesh_type)
             Missing(t) == ~InList(t, entry.physics_tags)
         IN  IF Truthy(solver) /\ entry.solver # solver.v THEN rest
             ELSE IF Truthy(physics_tags) /\ Len(SelectSeq(physics_tags.v, Missing)) > 0 THEN rest
             ELSE IF Truthy(require_mesh_type) /\ entry.mesh_type # require_mesh_type.v
             THEN rest
             ELSE <<[idx |-> idx, entry |-> entry]>> \o rest

\* _hard_filter without its mesh-type test
hard_filter_no_mesh(entries, solver, physics_tags, require_mesh_type) ==
    hard_filter_from(entries, 0, solver, physics_tags, PyNone)

hard_filter(entries, solver, physics_tags, require_mesh_type) ==
    hard_filter_from(entries, 0, solver, physics_tags, require_mesh_type)

(***************************************************************************)
(* _score: the four terms, their sum capped at 1.0, and the reasons (each  *)
(* reason by its kind).                                                    *)
(***************************************************************************)
\* the solver term with nothing for a query that names no solver
solver_term_no_neutral(entry, solver) ==
    IF Truthy(solver) /\ entry.solver = solver.v THEN W_SOLVER ELSE FZero

solver_term(entry, solver) ==
    IF Truthy(solver) /\ entry.solver = solver.v THEN W_SOLVER
    ELSE IF ~Truthy(solver) THEN FMul(W_SOLVER, FHalf)
    ELSE FZero

physics_overlap(entry, physics_tags) ==
    LET Present(t) == InList(t, entry.physics_tags) IN Len(SelectSeq(physics_tags, Present))

physics_term(entry, physics_tags) ==
    IF physics_tags # <<>>
    THEN FDivInt(FMul(W_PHYSICS, FFromInt(physics_overlap(entry, physics_tags))),
                 Len(physics_tags))
    ELSE FMul(W_PHYSICS, FHalf)

searchable(entry) ==
    LowerSeq(Chars[entry.path] \o <<" ">> \o Chars[entry.description] \o <<" ">>
             \o JoinChars(entry.physics_tags))

matched_kws(entry, keywords) ==
    LET Found(kw) == Contains(searchable(entry), LowerSeq(Chars[kw]))
    IN  SelectSeq(keywords, Found)

keyword_term(entry, keywords) ==
    IF keywords # <<>>
    THEN FDivInt(FMul(W_KEYWORD, FFromInt(Len(matched_kws(entry, keywords)))),
                 Len(keywords))
    ELSE FMul(W_KEYWORD, FHalf)

semantic_term(query_embedding, entry_embedding) ==
    IF Truthy(query_embedding) /\ Truthy(entry_embedding)
    THEN LET sim == cosine_similarity(query_embedding.v, entry_embedding.v)
         IN  FMul(W_SEMANTIC, FMax(FZero, sim))
    ELSE FMul(W_SEMANTIC, FHalf)

score(entry, solver, physics_tags, keywords, query_embedding, entry_embedding) ==
    LET total == FAdd(FAdd(FAdd(FAdd(FZero, solver_term(entry, solver)),
                                physics_term(entry, physics_tags)),
                           keyword_term(entry, keywords)),
                      semantic_term(query_embedding, entry_embedding))
        reasons ==
            (IF Truthy(solver) /\ entry.solver = solver.v THEN <<"solver match">> ELSE <<>>)
            \o (IF physics_tags # <<>> /\ physics_overlap(entry, physics_tags) > 0
                THEN <<"physics overlap">> ELSE <<>>)
            \o (IF keywords # <<>> /\ matched_kws(entry, keywords) # <<>>
                THEN <<"keyword match">> ELSE <<>>)
            \o (IF Truthy(query_embedding) /\ Truthy(entry_embedding)
                THEN <<"semantic similarity">> ELSE <<>>)
    IN  [score |-> FMin(total, FOne), reasons |-> reasons]

(***************************************************************************)
(* _load: lazy, once per instance.  A file is [exists, ok, rows]; ok is    *)
(* false for content the reader cannot decode (json.loads or np.load       *)
(* raises).  A failing np.load is caught; a failing json.loads is not.     *)
(***************************************************************************)
File(rows) == [exists |-> TRUE, ok |-> TRUE, rows |-> rows]
Undecodable == [exists |-> TRUE, ok |-> FALSE, rows |-> <<>>]

\* _load without the "already loaded" test: the files are read on every call
load_every_time(s, idxf, embf) ==
    IF ~idxf.exists
    THEN [raised |-> FALSE, searcher |-> [s EXCEPT !.entries = VList(<<>>)]]
    ELSE IF ~idxf.ok THEN [raised |-> TRUE, searcher |-> s]
    ELSE [raised |-> FALSE,
          searcher |-> [entries |-> VList(idxf.rows),
                        embeddings |-> IF embf.exists /\ embf.ok
                                       THEN VList(embf.rows)
                                       ELSE s.embeddings]]

\* _load without the index_path.exists() test: read_text raises on a missing file
load_missing_raises(s, idxf, embf) ==
    IF s.entries.t # "None" THEN [raised |-> FALSE, searcher |-> s]
    ELSE IF ~idxf.exists \/ ~idxf.ok THEN [raised |-> TRUE, searcher |-> s]
    ELSE [raised |-> FALSE,
          searcher |-> [entries |-> VList(idxf.rows),
                        embeddings |-> IF embf.exists /\ embf.ok
                                       THEN VList(embf.rows)
                                       ELSE s.embeddings]]

load(s, idxf, embf) ==
    IF s.entries.t # "None" THEN [raised |-> FALSE, searcher |-> s]
    ELSE IF ~idxf.exists
    THEN [raised |-> FALSE, searcher |-> [s EXCEPT !.entries = VList(<<>>)]]
    ELSE IF ~idxf.ok THEN [raised |-> TRUE, searcher |-> s]
    ELSE [raised |-> FALSE,
          searcher |-> [entries |-> VList(idxf.rows),
                        embeddings |-> IF embf.exists /\ embf.ok
                                       THEN VList(embf.rows)
                                       ELSE s.embeddings]]

(***************************************************************************)
(* The corpus entries, embeddings and query arguments the specifications   *)
(* draw from, and _score over them: scores holds the value of score for    *)
(* each combination of arguments, computed once.                           *)
(***************************************************************************)
E_cav  == [path |-> "cav", solver |-> "icoFoam", physics_tags |-> <<"inc", "lam">>,
           mesh_type |-> "blockMesh", description |-> "Ico"]
E_pitz == [path |-> "pitz", solver |-> "simpleFoam", physics_tags |-> <<"inc", "tur">>,
           mesh_type |-> "blockMesh", description |-> "simple"]
E_drop == [path |-> "drop", solver |-> "interFoam", physics_tags |-> <<"mul">>,
           mesh_type |-> "snappyHexMesh", description |-> "inter"]

EntryPool == {E_cav, E_pitz, E_drop}

RECURSIVE Corpora(_)
Corpora(n) ==
    IF n = 0 THEN {<<>>}
    ELSE LET shorter == Corpora(n - 1)
         IN  shorter \cup {Append(c, e) : c \in {x \in shorter : Len(x) = n - 1},
                                          e \in EntryPool}

Vec(x, y) == VList(<<x, y>>)

EmbFiles == { Absent, File(<<Vec(1, 0)>>), File(<<Vec(-1, 0), Vec(3, 4), Vec(0, 0)>>) }

Solvers     == { PyNone, VStr("icoFoam"), VStr("rhoFoam") }
TagLists    == { PyNone, VList(<<"inc">>), VList(<<"inc", "tur">>) }
KeywordLists == { PyNone, VList(<<"zz", "c">>), VList(<<"CAV", "ico", "lam">>) }
MeshTypes   == { PyNone, VStr("blockMesh"), VStr("external") }
\* (query_text, what embed_text returns for it)
Texts       == { <<PyNone, PyNone>>, <<VStr("q"), PyNone>>, <<VStr("q"), Vec(1, 0)>> }
KeywordPool == { "CAV", "zz", "" }

\* the arguments _score can be called with
ScoreArgs ==
    [entry : EntryPool,
     solver : Solvers,
     physics_tags : {IF Truthy(t) THEN t.v ELSE <<>> : t \in TagLists},
     keywords : LET given == {IF Truthy(k) THEN k.v ELSE <<>> : k \in KeywordLists}
                IN  given \cup {Append(k, kw) : k \in given, kw \in KeywordPool},
     query_embedding : {tx[2] : tx \in Texts},
     entry_embedding : {PyNone} \cup UNION {{f.rows[i] : i \in 1..Len(f.rows)} :
                                              f \in EmbFiles}]

\* (f @@ <<>> is f, held as a table of its values)
scores ==
    [a \in ScoreArgs |->
        score(a.entry, a.solver, a.physics_tags, a.keywords, a.query_embedding,
              a.entry_embedding)] @@ <<>>

(***************************************************************************)
(* search, after _load.  A query is [solver, physics_tags, keywords,       *)
(* query_text, top_n, require_mesh_type]; embedded is what embed_text      *)
(* would return for the query text.  A result carries the corpus index of  *)
(* its entry, which stands for the identity of the entry object.           *)
(***************************************************************************)
\* the relaxation without its middle step: from (tags, mesh type) straight to
\* the whole corpus
candidates_skip_mesh_step(entries, solver, physics_tags, require_mesh_type) ==
    LET c0 == hard_filter(entries, solver, physics_tags, require_mesh_type)
        c1 == IF Truthy(solver) /\ (Truthy(physics_tags) \/ Truthy(require_mesh_type))
              THEN hard_filter(entries, PyNone, physics_tags, require_mesh_type)
              ELSE c0
        c3 == IF c1 = <<>> THEN hard_filter(entries, PyNone, PyNone, PyNone) ELSE c1
    IN  IF c0 # <<>> THEN c0 ELSE c3

\* the candidates after the hard filter and, when it is empty, the relaxation
candidates_of(entries, solver, physics_tags, require_mesh_type) ==
    LET c0 == hard_filter(entries, solver, physics_tags, require_mesh_type)
        c1 == IF Truthy(solver) /\ (Truthy(physics_tags) \/ Truthy(require_mesh_type))
              THEN hard_filter(entries, PyNone, physics_tags, require_mesh_type)
              ELSE c0
        c2 == IF c1 = <<>> /\ Truthy(physics_tags)
              THEN hard_filter(entries, PyNone, PyNone, require_mesh_type)
              ELSE c1
        c3 == IF c2 = <<>> THEN hard_filter(entries, PyNone, PyNone, PyNone) ELSE c2
    IN  IF c0 # <<>> THEN c0 ELSE c3

OrEmpty(x) == IF Truthy(x) THEN x.v ELSE <<>>

\* an ascending sort reversed: equal scores come out in reverse corpus order
RECURSIVE sort_ties_reversed(_)
sort_ties_reversed(rs) ==
    IF rs = <<>> THEN <<>>
    ELSE LET n      == Len(rs)
             sorted == sort_ties_reversed(SubSeq(rs, 1, n - 1))
             r      == rs[n]
             k      == Cardinality({i \in 1..Len(sorted) : FLess(r.score, sorted[i].score)})
         IN  SubSeq(sorted, 1, k) \o <<r>> \o SubSeq(sorted, k + 1, Len(sorted))

\* list.sort(key=score, reverse=True): stable, equal scores keep their order
RECURSIVE sort_by_score(_)
sort_by_score(rs) ==
    IF rs = <<>> THEN <<>>
    ELSE LET n      == Len(rs)
             sorted == sort_by_score(SubSeq(rs, 1, n - 1))
             r      == rs[n]
             k      == Cardinality({i \in 1..Len(sorted) : ~FLess(sorted[i].score, r.score)})
         IN  SubSeq(sorted, 1, k) \o <<r>> \o SubSeq(sorted, k + 1, Len(sorted))

\* xs[:n]
Slice(xs, n) ==
    IF n >= 0 THEN SubSeq(xs, 1, Min(n, Len(xs)))
    ELSE SubSeq(xs, 1, Max(0, Len(xs) + n))

entry_embedding_of(s, idx) ==
    IF Truthy(s.embeddings) /\ idx < Len(s.embeddings.v)
    THEN s.embeddings.v[idx + 1]
    ELSE PyNone

query_embedding_of(s, q, embedded) ==
    IF Truthy(q.query_text) /\ Truthy(s.embeddings) THEN embedded ELSE PyNone

scored_of(s, q, embedded, candidates) ==
    [i \in 1..Len(candidates) |->
        LET c  == candidates[i]
            sc == scores[[entry |-> c.entry, solver |-> q.solver,
                          physics_tags |-> OrEmpty(q.physics_tags),
                          keywords |-> OrEmpty(q.keywords),
                          query_embedding |-> query_embedding_of(s, q, embedded),
                          entry_embedding |-> entry_embedding_of(s, c.idx)]]
        IN  [idx |-> c.idx, entry |-> c.entry, score |-> sc.score,
             match_reasons |-> sc.reasons]]

search(s, q, embedded) ==
    IF ~Truthy(s.entries) THEN <<>>
    ELSE LET candidates == candidates_of(s.entries.v, q.solver, q.physics_tags,
                                         q.require_mesh_type)
         IN  IF candidates = <<>> THEN <<>>
             ELSE Slice(sort_by_score(scored_of(s, q, embedded, candidates)), q.top_n)

(***************************************************************************)
(* Search specification: an index directory as a build or a test left it,  *)
(* one TutorialSearcher over it, and search calls.                         *)
(***************************************************************************)
Queries ==
    [solver : Solvers, physics_tags : TagLists, keywords : KeywordLists,
     query_text : {PyNone, VStr("q")}, top_n : 0..MaxTopN, require_mesh_type : MeshTypes]

SimpleQueries ==
    { q \in Queries : /\ q.keywords = PyNone /\ q.top_n = MaxTopN
                      /\ q.physics_tags \in {PyNone, VList(<<"inc">>)}
                      /\ q.solver \in {PyNone, VStr("icoFoam")}
                      /\ q.require_mesh_type = PyNone }

\* one search call: _load, then the search proper
SearchWith(qs) ==
    \E q \in qs, tx \in Texts :
        /\ tx[1] = q.query_text
        /\ LET l == load(searcher, index_file, emb_file)
           IN  /\ searcher' = l.searcher
               /\ found' = IF l.raised
                           THEN [status |-> "raised", query |-> q, embedded |-> tx[2],
                                 at |-> [index_file |-> index_file, emb_file |-> emb_file],
                                 results |-> <<>>]
                           ELSE [status |-> "returned", query |-> q, embedded |-> tx[2],
                                 at |-> [index_file |-> index_file, emb_file |-> emb_file],
                                 results |-> search(l.searcher, q, tx[2])]
               /\ first_load' = IF ~first_load.done /\ ~l.raised
                                THEN [done |-> TRUE, index_file |-> index_file,
                                      emb_file |-> emb_file]
                                ELSE first_load
        /\ UNCHANGED <<index_file, emb_file>>
        /\ UNCHANGED <<parser_vars, build_vars, agent_vars>>

ParserIdle ==
    /\ tokens = <<>>
    /\ result = NotParsed
    /\ foam = NoFoam
    /\ nsets = 0
    /\ last = NoLast

InitSearch ==
    /\ ParserIdle
    /\ index_file \in {Absent} \cup {File(c) : c \in Corpora(MaxEntries)}
    /\ emb_file \in EmbFiles
    /\ searcher = FreshSearcher
    /\ found = NoSearch
    /\ first_load = NoLoad
    /\ BuildIdle
    /\ TextIdle
    /\ AgentIdle

\* the first search call on a fresh TutorialSearcher
Search == found.status = "none" /\ SearchWith(Queries)

NextSearch == Search

SpecSearch == InitSearch /\ [][NextSearch]_vars

(***************************************************************************)
(* What the search contract says of a call, written from its statement:    *)
(* the entries meeting a subset of the three constraints, the candidate    *)
(* set the ladder prescribes, and the score formula.                       *)
(***************************************************************************)
Returned == found.status = "returned"
Corpus == IF Truthy(searcher.entries) THEN searcher.entries.v ELSE <<>>
Q == found.query
Given(x) == x # PyNone
ResultIdx == {found.results[i].idx : i \in 1..Len(found.results)}
AllIdx == 0..(Len(Corpus) - 1)

\* the corpus positions meeting the chosen constraints of the query
Meeting(useSolver, useTags, useMesh) ==
    {i \in AllIdx :
        LET e == Corpus[i + 1]
        IN  /\ (useSolver /\ Given(Q.solver)) => e.solver = Q.solver.v
            /\ (useTags /\ Given(Q.physics_tags)) =>
                   \A j \in 1..Len(Q.physics_tags.v) :
                       \E k \in 1..Len(e.physics_tags) :
                           e.physics_tags[k] = Q.physics_tags.v[j]
            /\ (useMesh /\ Given(Q.require_mesh_type)) =>
                   e.mesh_type = Q.require_mesh_type.v}

HardSet == Meeting(TRUE, TRUE, TRUE)

LadderSet ==
    IF HardSet # {} THEN HardSet
    ELSE IF Meeting(FALSE, TRUE, TRUE) # {} THEN Meeting(FALSE, TRUE, TRUE)
    ELSE IF Meeting(FALSE, FALSE, TRUE) # {} THEN Meeting(FALSE, FALSE, TRUE)
    ELSE AllIdx

\* C4: when the hard filter yields no candidate, the candidates scored are the
\* first non-empty of: (tags, mesh type) without the solver; (mesh type) only;
\* the whole corpus.  The results are drawn from that set and are as many as
\* top_n allows; for a non-empty corpus and top_n >= 1 the result is not empty.
C4_RelaxationLadder ==
    (Returned /\ Corpus # <<>>) =>
        /\ HardSet = {} =>
              /\ ResultIdx \subseteq LadderSet
              /\ Len(found.results) = Min(Q.top_n, Cardinality(LadderSet))
        /\ Q.top_n >= 1 => found.results # <<>>

\* C4 witness: solver and tags had to be dropped, the mesh type alone selected
\* a proper part of the corpus, and the results came from it.
C4_Witness ==
    /\ Returned
    /\ HardSet = {} /\ Meeting(FALSE, TRUE, TRUE) = {}
    /\ Meeting(FALSE, FALSE, TRUE) # {} /\ Meeting(FALSE, FALSE, TRUE) # AllIdx
    /\ Given(Q.solver) /\ Given(Q.physics_tags) /\ Given(Q.require_mesh_type)
    /\ found.results # <<>>
    /\ ResultIdx = Meeting(FALSE, FALSE, TRUE)

\* C5: the three constraints are conjunctive and nothing is relaxed while they
\* can be met: if some entry meets all that were given, every result does.
C5_HardFilterConjunctive ==
    (Returned /\ HardSet # {}) => ResultIdx \subseteq HardSet

\* C5 witness: all three constraints given and met by part of the corpus only;
\* an entry meeting the tags and the mesh type but not the solver was left out,
\* and the results are exactly the entries meeting all three.
C5_Witness ==
    /\ Returned
    /\ Given(Q.solver) /\ Given(Q.physics_tags) /\ Given(Q.require_mesh_type)
    /\ HardSet # {} /\ HardSet # AllIdx
    /\ \E i \in AllIdx \ HardSet : i \in Meeting(FALSE, TRUE, TRUE)
    /\ ResultIdx = HardSet

\* the entries of the results
ResultEntries == {found.results[i].entry : i \in 1..Len(found.results)}

HasRequestedMesh(e) == e.mesh_type = Q.require_mesh_type.v

HasRequestedTags(e) ==
    \A j \in 1..Len(Q.physics_tags.v) :
        \E k \in 1..Len(e.physics_tags) : e.physics_tags[k] = Q.physics_tags.v[j]

\* C27: relaxation never drops a mesh-type constraint that can still be met: if
\* require_mesh_type is given and some corpus entry has that mesh type, every
\* result has it, whatever solver and tags were requested; and if some entry has
\* all requested tags and the requested mesh type, every result has all the
\* requested tags.
C27_MeshTypeKept ==
    Returned =>
        /\ (Given(Q.require_mesh_type)
            /\ \E i \in AllIdx : HasRequestedMesh(Corpus[i + 1]))
              => \A e \in ResultEntries : HasRequestedMesh(e)
        /\ (Given(Q.physics_tags)
            /\ \E i \in AllIdx :
                  /\ HasRequestedTags(Corpus[i + 1])
                  /\ Given(Q.require_mesh_type) => HasRequestedMesh(Corpus[i + 1]))
              => \A e \in ResultEntries : HasRequestedTags(e)

\* C27 witness: solver, tags and mesh type were requested, no entry met the
\* tags and the mesh type, the corpus held an entry of the mesh type and one of
\* another, and the results are entries of the requested mesh type only.
C27_Witness ==
    /\ Returned
    /\ Given(Q.solver) /\ Given(Q.physics_tags) /\ Given(Q.require_mesh_type)
    /\ \A i \in AllIdx : ~(HasRequestedTags(Corpus[i + 1]) /\ HasRequestedMesh(Corpus[i + 1]))
    /\ \E i, j \in AllIdx : HasRequestedMesh(Corpus[i + 1]) /\ ~HasRequestedMesh(Corpus[j + 1])
    /\ found.results # <<>>
    /\ \A e \in ResultEntries : HasRequestedMesh(e)

\* C27 witness, second part: the solver had to be dropped, an entry of the
\* requested mesh type lacked the tags, and every result has the tags.
C27_TagsKept ==
    /\ Returned
    /\ Given(Q.solver) /\ Given(Q.physics_tags) /\ Given(Q.require_mesh_type)
    /\ HardSet = {}
    /\ \E i, j \in AllIdx :
          /\ HasRequestedTags(Corpus[i + 1]) /\ HasRequestedMesh(Corpus[i + 1])
          /\ ~HasRequestedTags(Corpus[j + 1]) /\ HasRequestedMesh(Corpus[j + 1])
    /\ found.results # <<>>
    /\ \A e \in ResultEntries : HasRequestedTags(e)

\* the score the contract gives the entry at corpus position i for query q
EntryVec(i) ==
    IF Truthy(searcher.embeddings) /\ i < Len(searcher.embeddings.v)
    THEN searcher.embeddings.v[i + 1] ELSE PyNone

QueryVec == IF Given(Q.query_text) /\ Truthy(searcher.embeddings)
            THEN found.embedded ELSE PyNone

\* the arguments _score has for the entry at corpus position i, with the given
\* keywords in place of the query's
ArgsOf(i, keywords) ==
    [entry |-> Corpus[i + 1], solver |-> Q.solver,
     physics_tags |-> OrEmpty(Q.physics_tags), keywords |-> keywords,
     query_embedding |-> QueryVec, entry_embedding |-> EntryVec(i)]

ScoreOf(i, keywords) == scores[ArgsOf(i, keywords)].score

\* C6: results are in non-increasing score order, equal scores in corpus order;
\* they are exactly the first min(top_n, candidates) of that order; no corpus
\* entry appears twice.
C6_RankAndTruncate ==
    Returned =>
        LET rs == found.results
        IN  /\ \A i \in 1..(Len(rs) - 1) :
                  \/ FLess(rs[i + 1].score, rs[i].score)
                  \/ rs[i].score = rs[i + 1].score /\ rs[i].idx < rs[i + 1].idx
            /\ \A i, j \in 1..Len(rs) : i # j => rs[i].idx # rs[j].idx
            /\ ResultIdx \subseteq LadderSet
            /\ Corpus # <<>> => Len(rs) = Min(Q.top_n, Cardinality(LadderSet))
            /\ \A c \in LadderSet \ ResultIdx : \A i \in 1..Len(rs) :
                  \/ FLess(ScoreOf(c, OrEmpty(Q.keywords)), rs[i].score)
                  \/ ScoreOf(c, OrEmpty(Q.keywords)) = rs[i].score /\ c > rs[i].idx

\* C6 witness: two candidates with equal scores, top_n = 1, and the one that
\* comes first in the corpus is the one returned.
C6_Witness ==
    /\ Returned
    /\ Q.top_n = 1 /\ Len(found.results) = 1
    /\ found.results[1].idx = 0
    /\ 1 \in LadderSet
    /\ ScoreOf(1, OrEmpty(Q.keywords)) = found.results[1].score

\* C7: every score is min(1.0, S + P + K + M) with S, P, K, M as the contract
\* defines them, hence between 0 and 1.  The numbers are floats: a decimal of
\* the contract is the float nearest to it, each ratio term is
\* weight * count / requested, and the sum is taken in the order S, P, K, M.
Hundredths(k) == FDivInt(FFromInt(k), 100)

SolverPart(a) ==
    IF ~Given(a.solver) THEN Tenths(2)
    ELSE IF a.entry.solver = a.solver.v THEN Tenths(4) ELSE FZero

PhysicsPart(a) ==
    IF a.physics_tags = <<>> THEN Hundredths(15)
    ELSE LET req == a.physics_tags
             present == {j \in 1..Len(req) :
                           \E k \in 1..Len(a.entry.physics_tags) :
                               a.entry.physics_tags[k] = req[j]}
         IN  FDivInt(FMul(Tenths(3), FFromInt(Cardinality(present))), Len(req))

KeywordPart(a) ==
    IF a.keywords = <<>> THEN Tenths(1)
    ELSE LET req == a.keywords
             hit == {j \in 1..Len(req) :
                       Contains(searchable(a.entry), LowerSeq(Chars[req[j]]))}
         IN  FDivInt(FMul(Tenths(2), FFromInt(Cardinality(hit))), Len(req))

SemanticPart(a) ==
    IF Given(a.query_embedding) /\ Given(a.entry_embedding)
    THEN LET x == a.query_embedding.v
             y == a.entry_embedding.v
             norms == ISqrt(Dot(x, x)) * ISqrt(Dot(y, y))
         IN  IF norms = 0 \/ Dot(x, y) <= 0 THEN FZero
             ELSE FMul(Tenths(1), FDivInt(FFromInt(Dot(x, y)), norms))
    ELSE Hundredths(5)

\* the contract's score for each combination of arguments
ContractScores ==
    [a \in ScoreArgs |->
        FMin(FOne, FAdd(FAdd(FAdd(SolverPart(a), PhysicsPart(a)), KeywordPart(a)),
                        SemanticPart(a)))] @@ <<>>

Matches(kw, e) == Contains(searchable(e), LowerSeq(Chars[kw]))

C8_KeywordMonotonic ==
    Returned =>
        \A i \in 1..Len(found.results) : \A kw \in KeywordPool :
            LET r == found.results[i]
            IN  Matches(kw, r.entry) =>
                    ~FLess(ScoreOf(r.idx, Append(OrEmpty(Q.keywords), kw)), r.score)

\* C9: a missing index file and an index file holding an empty list are both an
\* empty corpus: search, with any arguments, returns an empty list and raises
\* nothing.
EmptyIndex(f) == ~f.exists \/ (f.ok /\ f.rows = <<>>)

C9_EmptyCorpus ==
    (found.status # "none" /\ EmptyIndex(index_file)) =>
        /\ found.status = "returned"
        /\ found.results = <<>>

\* C9 witness: a search with a solver, tags and top_n >= 1 over a directory
\* with no index file (but an embeddings file) returned the empty list.
C9_Witness ==
    /\ Returned
    /\ ~index_file.exists /\ emb_file.exists
    /\ Given(Q.solver) /\ Given(Q.physics_tags) /\ Q.top_n >= 1
    /\ found.results = <<>>

(***************************************************************************)
(* IndexBuilder._save, as the writer of the two files: the index file gets *)
(* every entry without its embedding; the embeddings file is written only  *)
(* when some entry has an embedding, and is otherwise left as it was.      *)
(* built is a list of [entry, embedding].                                  *)
(***************************************************************************)
save(built, old_emb_file) ==
    LET index_data == [i \in 1..Len(built) |-> built[i].entry]
        embeddings_data == [i \in 1..Len(built) |-> built[i].embedding]
        NotNone(e) == e # PyNone
        valid == SelectSeq(embeddings_data, NotNone)
    IN  [index_file |-> File(index_data),
         emb_file |-> IF valid # <<>> THEN File(valid) ELSE old_emb_file]

\* the vector the embedding provider gives a description
EmbedOf(description) ==
    CASE description = "Ico" -> Vec(1, 0)
      [] description = "simple" -> Vec(3, 4)
      [] description = "inter" -> Vec(-1, 0)

(***************************************************************************)
(* Reload specification: one TutorialSearcher is used again and again      *)
(* while builds rewrite the index directory and files are removed or       *)
(* damaged under it.                                                       *)
(***************************************************************************)
ReloadCorpora == { <<>>, <<E_cav>>, <<E_drop, E_cav>> }

InitReload ==
    /\ ParserIdle
    /\ index_file \in {Absent, File(<<E_drop>>)}
    /\ emb_file \in {Absent, File(<<Vec(-1, 0)>>)}
    /\ searcher = FreshSearcher
    /\ found = NoSearch
    /\ first_load = NoLoad
    /\ BuildIdle
    /\ TextIdle
    /\ AgentIdle

SearchAgain == SearchWith(SimpleQueries)

SaveIndex ==
    /\ \E c \in ReloadCorpora, with_embeddings \in BOOLEAN :
          LET built == [i \in 1..Len(c) |->
                          [entry |-> c[i],
                           embedding |-> IF with_embeddings
                                         THEN EmbedOf(c[i].description) ELSE PyNone]]
              w == save(built, emb_file)
          IN  /\ index_file' = w.index_file
              /\ emb_file' = w.emb_file
    /\ UNCHANGED <<searcher, found, first_load>>
    /\ UNCHANGED <<parser_vars, build_vars, agent_vars>>

RemoveIndex ==
    /\ index_file.exists
    /\ index_file' = Absent
    /\ UNCHANGED <<emb_file, searcher, found, first_load>>
    /\ UNCHANGED <<parser_vars, build_vars, agent_vars>>

RemoveEmbeddings ==
    /\ emb_file.exists
    /\ emb_file' = Absent
    /\ UNCHANGED <<index_file, searcher, found, first_load>>
    /\ UNCHANGED <<parser_vars, build_vars, agent_vars>>

DamageIndex ==
    /\ index_file.exists /\ index_file.ok
    /\ index_file' = Undecodable
    /\ UNCHANGED <<emb_file, searcher, found, first_load>>
    /\ UNCHANGED <<parser_vars, build_vars, agent_vars>>

NextReload == SearchAgain \/ SaveIndex \/ RemoveIndex \/ RemoveEmbeddings \/ DamageIndex

SpecReload == InitReload /\ [][NextReload]_vars

\* what a searcher holds after loading the two files f and g
EntriesOf(f) == IF f.exists THEN f.rows ELSE <<>>
EmbeddingsOf(f, g) == IF f.exists /\ g.exists /\ g.ok THEN VList(g.rows) ELSE PyNone

\* C10: the load is memoized per instance: once the first search call has
\* returned, every later search uses the entries and embeddings loaded then,
\* whatever has happened to the two files since, also when the first load
\* found no index file.
C10_LoadOnce ==
    first_load.done =>
        /\ searcher.entries = VList(EntriesOf(first_load.index_file))
        /\ searcher.embeddings = EmbeddingsOf(first_load.index_file, first_load.emb_file)
        /\ found.status = "returned"
        /\ found.results = search([entries |-> VList(EntriesOf(first_load.index_file)),
                                   embeddings |-> EmbeddingsOf(first_load.index_file,
                                                               first_load.emb_file)],
                                  found.query, found.embedded)

\* C10 witness: the first load found no index file, a build then wrote an index
\* that a fresh searcher would find results in, and the old searcher, called
\* again, still returned the empty list.
C10_Witness ==
    /\ first_load.done
    /\ ~first_load.index_file.exists
    /\ found.status = "returned"
    /\ found.at.index_file.exists /\ found.at.index_file.ok
    /\ found.results = <<>>
    /\ search(load(FreshSearcher, found.at.index_file, found.at.emb_file).searcher,
              found.query, found.embedded) # <<>>

(***************************************************************************)
(* The tutorials tree the IndexBuilder walks.  A tree is [exists, at]: at  *)
(* gives each directory slot under the root its content, "absent", "plain" *)
(* (a directory that is no case) or the kind of case it is.  A slot is the *)
(* list of directory names leading to it from the root.  What a case of a  *)
(* kind holds is tabulated: its system/controlDict, the other files of     *)
(* system/, and its 0/ directory.  The cases of the model have no          *)
(* constant/ directory and no system/fvSchemes.                            *)
(***************************************************************************)
Names == <<"a", "b">>

Slots == {<<>>, <<"a">>, <<"b">>, <<"a", "a">>, <<"a", "b">>, <<"b", "a">>}

KindNames == {"ico", "run", "bare", "unreadable", "failing", "locked"}

\* a file: whether it can be read, and the tokens of its text
TextFile(toks) == [readable |-> TRUE, tokens |-> toks]
Unreadable == [readable |-> FALSE, tokens |-> <<>>]

ControlDict ==
    [k \in KindNames |->
        CASE k = "ico"        -> TextFile(<<"application", "\" icoFoam \"", ";">>)
          [] k = "run"        -> TextFile(<<"application", "foamRun", ";",
                                            "solver", "incompressibleVoF", ";">>)
          [] k = "bare"       -> TextFile(<<>>)
          [] k = "unreadable" -> Unreadable
          [] k = "failing"    -> TextFile(<<"application", "rhoFoam", ";">>)
          [] k = "locked"     -> TextFile(<<"application", "icoFoam", ";">>)]

\* the file names of system/, in lexical order
SystemFiles ==
    [k \in KindNames |->
        CASE k = "ico" -> <<"blockMeshDict", "controlDict">>
          [] k = "run" -> <<"blockMeshDict", "controlDict", "snappyHexMeshDict">>
          [] OTHER     -> <<"controlDict">>]

Field_U == TextFile(<<"boundaryField", "{", "inlet", "{", "type", "fixedValue", ";", "}",
                      "}">>)
Field_p == TextFile(<<"boundaryField", "{", "inlet", "{", "type", "zeroGradient", ";", "}",
                      "wall", "{", "type", "3", ";", "}", "}">>)

\* 0/: whether it exists, whether it can be listed, and its files (name, file)
\* in lexical order
ZeroDir ==
    [k \in KindNames |->
        CASE k = "ico"     -> [exists |-> TRUE, listable |-> TRUE,
                               files |-> <<<<"U", Field_U>>, <<"p", Field_p>>>>]
          [] k = "failing" -> [exists |-> TRUE, listable |-> FALSE, files |-> <<>>]
          [] OTHER         -> [exists |-> FALSE, listable |-> TRUE, files |-> <<>>]]

NoFile == [exists |-> FALSE, file |-> Unreadable]
FileOf(file) == [exists |-> TRUE, file |-> file]

\* constant/: whether thermophysicalProperties and g exist, and
\* transportProperties
ConstantDir ==
    [k \in KindNames |->
        CASE k = "ico"    -> [thermo |-> FALSE, g |-> FALSE,
                              transport |-> FileOf(TextFile(<<"nu", "1", ";">>))]
          [] k = "run"    -> [thermo |-> FALSE, g |-> TRUE, transport |-> NoFile]
          [] k = "bare"   -> [thermo |-> TRUE, g |-> FALSE,
                              transport |-> FileOf(TextFile(<<"phases", "(", "a", "b", ")",
                                                              ";">>))]
          [] k = "locked" -> [thermo |-> FALSE, g |-> FALSE, transport |-> FileOf(Unreadable)]
          [] OTHER        -> [thermo |-> FALSE, g |-> FALSE, transport |-> NoFile]]

\* the file names of constant/, in lexical order
ConstantFiles(k) ==
    (IF ConstantDir[k].g THEN <<"g">> ELSE <<>>)
    \o (IF ConstantDir[k].thermo THEN <<"thermophysicalProperties">> ELSE <<>>)
    \o (IF ConstantDir[k].transport.exists THEN <<"transportProperties">> ELSE <<>>)

IsCase(t, p) == t.at[p] \in KindNames

\* the sub-directories of slot p that exist, by name, in lexical order
ChildNames(t, p) ==
    LET Present(n) == Append(p, n) \in Slots /\ t.at[Append(p, n)] # "absent"
    IN  SelectSeq(Names, Present)

Reverse(xs) == [i \in 1..Len(xs) |-> xs[Len(xs) + 1 - i]]

\* the order in which the file system hands out the entries of a directory:
\* os.walk and Path.iterdir do not sort, so it is the file system's choice
Orders == {"lexical", "reverse"}
Enumerate(xs, order) == IF order = "lexical" THEN xs ELSE Reverse(xs)

\* "/".join(names)
RECURSIVE JoinSlash(_)
JoinSlash(names) ==
    IF names = <<>> THEN ""
    ELSE IF Len(names) = 1 THEN names[1]
    ELSE names[1] \o "/" \o JoinSlash(Tail(names))

\* str(case_dir.relative_to(tutorials_path))
RelPath(p) == IF p = <<>> THEN "." ELSE JoinSlash(p)

(***************************************************************************)
(* IndexBuilder._find_cases: os.walk top-down; a directory holding         *)
(* system/controlDict is yielded and its sub-directories are not visited.  *)
(***************************************************************************)
\* _find_cases without dirs.clear(): the walk goes on below a case
RECURSIVE find_cases_descending(_, _, _), find_cases_descending_in(_, _, _, _)
find_cases_descending(t, p, order) ==
    (IF IsCase(t, p) THEN <<p>> ELSE <<>>)
    \o find_cases_descending_in(t, p, Enumerate(ChildNames(t, p), order), order)

find_cases_descending_in(t, p, names, order) ==
    IF names = <<>> THEN <<>>
    ELSE find_cases_descending(t, Append(p, names[1]), order)
         \o find_cases_descending_in(t, p, Tail(names), order)

RECURSIVE find_cases(_, _, _), find_cases_in(_, _, _, _)
find_cases(t, p, order) ==
    IF IsCase(t, p) THEN <<p>>
    ELSE find_cases_in(t, p, Enumerate(ChildNames(t, p), order), order)

find_cases_in(t, p, names, order) ==
    IF names = <<>> THEN <<>>
    ELSE find_cases(t, Append(p, names[1]), order)
         \o find_cases_in(t, p, Tail(names), order)

(***************************************************************************)
(* IndexBuilder._extract_entry and what it calls.  An outcome is           *)
(* [raised, val]: raised when an exception leaves the procedure.           *)
(***************************************************************************)
Done(val) == [raised |-> FALSE, val |-> val]
Failed == [raised |-> TRUE, val |-> PyNone]

\* str(x)
PyStr(x) == IF x.t = "str" THEN x.v ELSE PyRepr(x)

StripTable == [s \in {" icoFoam "} |-> "icoFoam"]

\* s.strip(): the other strings of the model begin and end with no white space
Strip(s) == IF s \in DOMAIN StripTable THEN StripTable[s] ELSE s

\* parse_foam_file: reading the file may fail (OSError), parsing it is parse_string
parse_foam_file(file) ==
    IF ~file.readable THEN Failed
    ELSE LET r == parse_string(file.tokens)
         IN  IF r.status = "raised" THEN Failed ELSE Done(r.doc)

\* the files under a directory as os.walk lists them, relative to it: the files
\* of each sub-directory, then those below it; a directory that cannot be
\* listed is passed over
RECURSIVE dir_files(_, _, _), dir_files_in(_, _, _, _)
dir_files(t, p, order) ==
    LET k    == t.at[p]
        subs == (IF IsCase(t, p) /\ ZeroDir[k].exists THEN <<"0">> ELSE <<>>)
                \o ChildNames(t, p)
                \o (IF IsCase(t, p) /\ ConstantFiles(k) # <<>> THEN <<"constant">> ELSE <<>>)
                \o (IF IsCase(t, p) THEN <<"system">> ELSE <<>>)
    IN  dir_files_in(t, p, Enumerate(subs, order), order)

dir_files_in(t, p, subs, order) ==
    IF subs = <<>> THEN <<>>
    ELSE LET sub   == subs[1]
             k     == t.at[p]
             names == IF sub = "0"
                      THEN Enumerate([i \in 1..Len(ZeroDir[k].files) |->
                                         ZeroDir[k].files[i][1]], order)
                      ELSE IF sub = "system" THEN Enumerate(SystemFiles[k], order)
                      ELSE IF sub = "constant" THEN Enumerate(ConstantFiles(k), order)
                      ELSE dir_files(t, Append(p, sub), order)
         IN  [i \in 1..Len(names) |-> sub \o "/" \o names[i]]
             \o dir_files_in(t, p, Tail(subs), order)

\* the loop over bf.items() of _extract_boundary_patches
RECURSIVE patches_of(_, _)
patches_of(items, patches) ==
    IF items = <<>> THEN patches
    ELSE LET patch_name == items[1][1]
             patch_data == items[1][2]
         IN  patches_of(Tail(items),
                        IF IsDict(patch_data) /\ DictHas(patch_data, "type")
                        THEN DictPut(patches, patch_name, DictAt(patch_data, "type"))
                        ELSE patches)

\* the loop over the files of 0/: the first file that gives patches ends it
RECURSIVE patches_from_files(_)
patches_from_files(files) ==
    IF files = <<>> THEN EmptyDict
    ELSE LET foam_doc == parse_foam_file(files[1][2])
             bf       == DictGet(foam_doc.val.data, "boundaryField", EmptyDict)
         IN  IF foam_doc.raised THEN patches_from_files(Tail(files))
             ELSE IF ~IsDict(bf) THEN patches_from_files(Tail(files))
             ELSE LET patches == patches_of(bf.v, EmptyDict)
                  IN  IF patches # EmptyDict THEN patches
                      ELSE patches_from_files(Tail(files))

\* zero_dir.iterdir() is outside the try: a 0/ that cannot be listed raises
extract_boundary_patches(k, order) ==
    IF ~ZeroDir[k].exists THEN Done(EmptyDict)
    ELSE IF ~ZeroDir[k].listable THEN Failed
    ELSE Done(patches_from_files(Enumerate(ZeroDir[k].files, order)))

MODULAR_RUNNERS == {"foamRun", "foamMultiRun"}

V11_MODULE_TAGS ==
    [m \in {"incompressiblefluid", "compressiblefluid", "multicomponentfluid",
            "incompressiblevof", "compressiblevof", "multiphaseeuler",
            "isothermaldriftflux", "shallowwater", "xifluid",
            "buoyantboussinesqsimplefluid", "buoyantsimplefluid", "buoyantsimplefoam",
            "solidfluid", "solidbodymotion", "reactions", "electrokineticfluid",
            "isothermalfilm"} |->
        CASE m \in {"incompressiblefluid", "shallowwater"} -> <<"incompressible">>
          [] m \in {"compressiblefluid", "multicomponentfluid", "xifluid", "reactions"}
                -> <<"compressible">>
          [] m \in {"incompressiblevof", "isothermaldriftflux"}
                -> <<"multiphase", "incompressible">>
          [] m = "compressiblevof" -> <<"multiphase", "compressible">>
          [] m \in {"multiphaseeuler", "isothermalfilm"} -> <<"multiphase">>
          [] m = "buoyantboussinesqsimplefluid" -> <<"incompressible", "heat_transfer">>
          [] m \in {"buoyantsimplefluid", "buoyantsimplefoam"}
                -> <<"compressible", "heat_transfer">>
          [] m = "solidfluid" -> <<"heat_transfer">>
          [] OTHER -> <<>>]

\* the classic solver name patterns, for the lowered names of the model that
\* are no v11 module: which of them hold one of the substrings of each test
ClassicNames ==
    [incompressible |-> {"icofoam"}, compressible |-> {"rhofoam"},
     multiphase |-> {}, heat_transfer |-> {}]

\* _infer_physics_tags for a case with no system/fvSchemes and no
\* constant/turbulenceProperties
infer_physics_tags(solver) ==
    LET solver_lower == Lower(solver)
    IN  IF solver_lower \in DOMAIN V11_MODULE_TAGS THEN V11_MODULE_TAGS[solver_lower]
        ELSE (IF solver_lower \in ClassicNames.incompressible
              THEN <<"incompressible">> ELSE <<>>)
             \o (IF solver_lower \in ClassicNames.compressible
                 THEN <<"compressible">> ELSE <<>>)
             \o (IF solver_lower \in ClassicNames.multiphase
                 THEN <<"multiphase">> ELSE <<>>)
             \o (IF solver_lower \in ClassicNames.heat_transfer
                 THEN <<"heat_transfer">> ELSE <<>>)

\* constant/turbulenceProperties does not exist
extract_turbulence_model(k) == PyNone

\* the two tests of _detect_mesh_type in the other order
detect_mesh_type_block_first(k) ==
    IF InList("blockMeshDict", SystemFiles[k]) THEN "blockMesh"
    ELSE IF InList("snappyHexMeshDict", SystemFiles[k]) THEN "snappyHexMesh"
    ELSE "external"

detect_mesh_type(k) ==
    IF InList("snappyHexMeshDict", SystemFiles[k]) THEN "snappyHexMesh"
    ELSE IF InList("blockMeshDict", SystemFiles[k]) THEN "blockMesh"
    ELSE "external"

has_heat_transfer(k, physics_tags) ==
    IF InList("heat_transfer", physics_tags) THEN TRUE
    ELSE ConstantDir[k].thermo \/ ConstantDir[k].g

\* "phases" in tp.data; what parse_foam_file raises is passed over
has_phases(tp) == IF tp.raised THEN FALSE ELSE DictHas(tp.val.data, "phases")

has_multiphase(k, physics_tags) ==
    IF InList("multiphase", physics_tags) THEN TRUE
    ELSE IF ConstantDir[k].transport.exists
    THEN has_phases(parse_foam_file(ConstantDir[k].transport.file))
    ELSE FALSE

\* ", ".join(tags)
RECURSIVE JoinComma(_)
JoinComma(tags) ==
    IF tags = <<>> THEN ""
    ELSE IF Len(tags) = 1 THEN tags[1]
    ELSE tags[1] \o ", " \o JoinComma(Tail(tags))

\* (the dash of the f-string is U+2014, written here "--")
build_description(rel_path, solver, physics_tags, turbulence_model, mesh_type) ==
    LET tags_str == IF physics_tags # <<>> THEN JoinComma(physics_tags) ELSE "general"
        turb_str == IF Truthy(turbulence_model) THEN ", " \o turbulence_model.v ELSE ""
    IN  rel_path \o " -- " \o solver \o " (" \o tags_str \o turb_str \o ", "
        \o mesh_type \o ")"

Version == "11"

StrList(xs) == VList([i \in 1..Len(xs) |-> VStr(xs[i])])

\* a TutorialEntry: its fields, as Python values
TutorialEntryOf(path, solver, files, boundary_patches, physics_tags, turbulence_model, heat, multiphase, mesh_type, description, embedding) ==
    [path |-> VStr(path), solver |-> VStr(solver), version |-> VStr(Version),
     files |-> StrList(files), boundary_patches |-> boundary_patches,
     physics_tags |-> StrList(physics_tags), turbulence_model |-> turbulence_model,
     has_heat_transfer |-> VBool(heat), has_multiphase |-> VBool(multiphase),
     mesh_type |-> VStr(mesh_type), description |-> VStr(description),
     embedding |-> embedding]

\* val is the entry, or None when the controlDict could not be parsed
extract_entry(t, p, order) ==
    LET k            == t.at[p]
        rel_path     == RelPath(p)
        control_dict == parse_foam_file(ControlDict[k])
        data         == control_dict.val.data
        application  == Strip(PyStr(DictGet(data, "application", VStr("unknown"))))
        physics_module == Strip(PyStr(DictGet(data, "solver", VStr(""))))
        solver       == IF application \in MODULAR_RUNNERS
                        THEN (IF physics_module # "" THEN physics_module ELSE application)
                        ELSE application
        all_files    == dir_files(t, p, order)
        boundary_patches == extract_boundary_patches(k, order)
        physics_tags == infer_physics_tags(solver)
        turbulence_model == extract_turbulence_model(k)
        mesh_type    == detect_mesh_type(k)
    IN  IF control_dict.raised THEN Done(PyNone)
        ELSE IF boundary_patches.raised THEN Failed
        ELSE Done(TutorialEntryOf(rel_path, solver, all_files, boundary_patches.val,
                                  physics_tags, turbulence_model,
                                  has_heat_transfer(k, physics_tags),
                                  has_multiphase(k, physics_tags), mesh_type,
                                  build_description(rel_path, solver, physics_tags,
                                                    turbulence_model, mesh_type),
                                  PyNone))

(***************************************************************************)
(* The index file's text.  json.dumps and json.loads are modelled on the   *)
(* JSON values the text spells, [j, v]: a string, a number by its literal, *)
(* one of the literals true, false and null, an array, or an object as its *)
(* (name, value) members in order.  Two texts written by json.dumps with   *)
(* the same arguments are the same bytes exactly when they spell the same  *)
(* JSON value.                                                             *)
(***************************************************************************)
EntryFields == <<"path", "solver", "version", "files", "boundary_patches",
                 "physics_tags", "turbulence_model", "has_heat_transfer",
                 "has_multiphase", "mesh_type", "description", "embedding">>

\* dataclasses.asdict
asdict(entry) ==
    VDict([i \in 1..Len(EntryFields) |-> <<EntryFields[i], entry[EntryFields[i]]>>])

RECURSIVE json_dumps(_)
json_dumps(x) ==
    CASE x.t = "str"   -> [j |-> "string", v |-> x.v]
      [] x.t = "bool"  -> [j |-> "literal", v |-> IF x.v THEN "true" ELSE "false"]
      [] x.t = "int"   -> [j |-> "number", v |-> IntStr(x.v)]
      [] x.t = "float" -> [j |-> "number", v |-> x.v]
      [] x.t = "None"  -> [j |-> "literal", v |-> "null"]
      [] x.t = "list"  -> [j |-> "array", v |-> [i \in 1..Len(x.v) |-> json_dumps(x.v[i])]]
      [] x.t = "dict"  -> [j |-> "object",
                           v |-> [i \in 1..Len(x.v) |->
                                     <<x.v[i][1], json_dumps(x.v[i][2])>>]]

\* a number literal with no fraction and no exponent is an int
IsIntLiteral(lit) == \E s \in DOMAIN IntTokens : IntStr(IntTokens[s]) = lit
IntOfLiteral(lit) == IntTokens[CHOOSE s \in DOMAIN IntTokens : IntStr(IntTokens[s]) = lit]

RECURSIVE json_loads(_)
json_loads(js) ==
    CASE js.j = "string"  -> VStr(js.v)
      [] js.j = "literal" -> (IF js.v = "null" THEN PyNone ELSE VBool(js.v = "true"))
      [] js.j = "number"  -> (IF IsIntLiteral(js.v) THEN VInt(IntOfLiteral(js.v))
                              ELSE VFloat(js.v))
      [] js.j = "array"   -> VList([i \in 1..Len(js.v) |-> json_loads(js.v[i])])
      [] js.j = "object"  -> VDict([i \in 1..Len(js.v) |->
                                       <<js.v[i][1], json_loads(js.v[i][2])>>])

\* TutorialEntry(**item): a field the item does not name takes its default
TutorialEntry(item) ==
    [f \in {EntryFields[i] : i \in 1..Len(EntryFields)} |->
        IF f = "embedding" THEN DictGet(item, f, PyNone) ELSE DictAt(item, f)]

\* the entries a TutorialSearcher makes of the rows of the index file
loaded_entries(rows) == [i \in 1..Len(rows) |-> TutorialEntry(json_loads(rows[i]))]

(***************************************************************************)
(* Embeddings at build time.  The provider is a function of the text: the  *)
(* vector of a text is written as the list holding that text.              *)
(***************************************************************************)
Encode(text) == VList(<<text>>)

\* embed_batch: None when the model is not available
embed_batch(texts, provider_up) ==
    IF provider_up THEN VList([i \in 1..Len(texts) |-> Encode(texts[i])]) ELSE PyNone

\* the loop "for entry, emb in zip(entries, embeddings)" when there are embeddings
attach_embeddings(entries, embeddings) ==
    IF Truthy(embeddings)
    THEN [i \in 1..Len(entries) |-> [entries[i] EXCEPT !.embedding = embeddings.v[i]]]
    ELSE entries

add_embeddings(entries, provider_up) ==
    attach_embeddings(entries,
                      embed_batch([i \in 1..Len(entries) |-> entries[i].description.v],
                                  provider_up))

\* d = asdict(entry); emb = d.pop("embedding", None); index_data.append(d)
index_row(d) ==
    [entry |-> json_dumps(DictWithout(d, "embedding")),
     embedding |-> DictGet(d, "embedding", PyNone)]

\* the row without the pop
index_row_keep_embedding(d) ==
    [entry |-> json_dumps(d), embedding |-> DictGet(d, "embedding", PyNone)]

\* _save without d.pop("embedding"): the embedding stays in the row
save_entries_keep_embedding(entries, old_emb_file) ==
    save([i \in 1..Len(entries) |-> index_row_keep_embedding(asdict(entries[i]))],
         old_emb_file)

\* _save, from the TutorialEntry list: each entry goes through asdict, its
\* embedding is popped, and the rest is dumped as a row of the index file
save_entries(entries, old_emb_file) ==
    save([i \in 1..Len(entries) |-> index_row(asdict(entries[i]))], old_emb_file)

(***************************************************************************)
(* IndexBuilder.build.                                                     *)
(***************************************************************************)
NoEntries == [entries |-> <<>>, skipped |-> 0, failed |-> 0, raised |-> FALSE]

\* one pass of the loop without its try/except: what the case raises leaves build
tally_uncaught(entry, acc) ==
    IF entry.raised THEN [acc EXCEPT !.raised = TRUE]
    ELSE IF entry.val # PyNone THEN [acc EXCEPT !.entries = Append(@, entry.val)]
    ELSE [acc EXCEPT !.skipped = @ + 1]

\* the extraction loop without its try/except: a failing case ends the build
RECURSIVE extract_all_uncaught(_, _, _, _)
extract_all_uncaught(t, case_dirs, order, acc) ==
    IF case_dirs = <<>> \/ acc.raised THEN acc
    ELSE extract_all_uncaught(t, Tail(case_dirs), order,
                              tally_uncaught(extract_entry(t, case_dirs[1], order), acc))

\* one pass of the loop: the entry is appended, or skipped += 1 when it is None,
\* or failed += 1 when the extraction raised
tally(entry, acc) ==
    IF entry.raised THEN [acc EXCEPT !.failed = @ + 1]
    ELSE IF entry.val # PyNone THEN [acc EXCEPT !.entries = Append(@, entry.val)]
    ELSE [acc EXCEPT !.skipped = @ + 1]

\* the extraction loop: acc is [entries, skipped, failed, raised]
RECURSIVE extract_all(_, _, _, _)
extract_all(t, case_dirs, order, acc) ==
    IF case_dirs = <<>> THEN acc
    ELSE extract_all(t, Tail(case_dirs), order,
                     tally(extract_entry(t, case_dirs[1], order), acc))

BuildResult(status, case_dirs, acc, saved, idxf, embf) ==
    [status |-> status, case_dirs |-> case_dirs, entries |-> acc.entries,
     skipped |-> acc.skipped, failed |-> acc.failed, saved |-> saved,
     index_file |-> idxf, emb_file |-> embf]

\* stage 4: w is what _save wrote
build_saved(case_dirs, acc, entries, w) ==
    BuildResult("returned", case_dirs, [acc EXCEPT !.entries = entries], TRUE,
                w.index_file, w.emb_file)

\* stage 3: the embeddings, when asked for
build_embedded(case_dirs, acc, entries, embf) ==
    build_saved(case_dirs, acc, entries, save_entries(entries, embf))

\* after the extraction loop
build_extracted(case_dirs, acc, generate_embeddings, provider_up, idxf, embf) ==
    IF acc.raised THEN BuildResult("raised", case_dirs, NoEntries, FALSE, idxf, embf)
    ELSE build_embedded(case_dirs, acc,
                        IF generate_embeddings
                        THEN add_embeddings(acc.entries, provider_up)
                        ELSE acc.entries,
                        embf)

\* after _find_cases: no case, no write
build_found(t, case_dirs, generate_embeddings, provider_up, order, idxf, embf) ==
    IF case_dirs = <<>>
    THEN BuildResult("returned", case_dirs, NoEntries, FALSE, idxf, embf)
    ELSE build_extracted(case_dirs, extract_all(t, case_dirs, order, NoEntries),
                         generate_embeddings, provider_up, idxf, embf)

\* build, from stage 1 on
build_stages(t, generate_embeddings, provider_up, order, idxf, embf) ==
    build_found(t, find_cases(t, <<>>, order), generate_embeddings, provider_up, order,
                idxf, embf)

\* build without the tutorials_path.exists() test: os.walk finds nothing
build_unchecked(t, generate_embeddings, provider_up, order, idxf, embf) ==
    IF ~t.exists THEN BuildResult("returned", <<>>, NoEntries, FALSE, idxf, embf)
    ELSE build_stages(t, generate_embeddings, provider_up, order, idxf, embf)

build(t, generate_embeddings, provider_up, order, idxf, embf) ==
    IF ~t.exists THEN BuildResult("raised", <<>>, NoEntries, FALSE, idxf, embf)
    ELSE build_stages(t, generate_embeddings, provider_up, order, idxf, embf)

(***************************************************************************)
(* Build specification: one IndexBuilder writes into one output directory, *)
(* build after build, while the tutorials tree is changed between builds.  *)
(* Each build is told whether to generate embeddings; whether the          *)
(* embedding provider is there and the order in which the file system      *)
(* enumerates directories are the environment's.                           *)
(***************************************************************************)
TreeOf(at) == [exists |-> TRUE, at |-> at]

T_flat ==
    TreeOf([p \in Slots |-> CASE p = <<>> -> "plain" [] p = <<"a">> -> "ico"
                              [] p = <<"b">> -> "run" [] OTHER -> "absent"])
T_swapped ==
    TreeOf([p \in Slots |-> CASE p = <<>> -> "plain" [] p = <<"a">> -> "run"
                              [] p = <<"b">> -> "locked" [] OTHER -> "absent"])
T_nested ==
    TreeOf([p \in Slots |-> CASE p = <<>> -> "plain" [] p = <<"a">> -> "ico"
                              [] p = <<"a", "b">> -> "run" [] p = <<"b">> -> "plain"
                              [] p = <<"b", "a">> -> "bare" [] OTHER -> "absent"])
T_failing ==
    TreeOf([p \in Slots |-> CASE p = <<>> -> "plain" [] p = <<"a">> -> "plain"
                              [] p = <<"a", "a">> -> "failing"
                              [] p = <<"a", "b">> -> "unreadable" [] p = <<"b">> -> "plain"
                              [] p = <<"b", "a">> -> "ico" [] OTHER -> "absent"])
T_skipped ==
    TreeOf([p \in Slots |-> CASE p = <<>> -> "plain" [] p = <<"a">> -> "unreadable"
                              [] p = <<"b">> -> "bare" [] OTHER -> "absent"])
T_root ==
    TreeOf([p \in Slots |-> CASE p = <<>> -> "ico" [] p = <<"a">> -> "run"
                              [] OTHER -> "absent"])
T_empty ==
    TreeOf([p \in Slots |-> CASE p = <<>> -> "plain" [] p = <<"a">> -> "plain"
                              [] OTHER -> "absent"])

Trees == {NoTree, T_flat, T_swapped, T_nested, T_failing, T_skipped, T_root, T_empty}

InitBuild ==
    /\ ParserIdle
    /\ SearchIdle
    /\ TextIdle
    /\ AgentIdle
    /\ tree \in Trees
    /\ last_build = NoBuild

\* what build b leaves in the output directory, and the record of the call
Built(b, generate_embeddings, provider_up, order) ==
    /\ index_file' = b.index_file
    /\ emb_file' = b.emb_file
    /\ last_build' =
           [status |-> b.status, n |-> last_build.n + 1, tree |-> tree,
            generate_embeddings |-> generate_embeddings,
            provider_up |-> provider_up, order |-> order,
            case_dirs |-> b.case_dirs, entries |-> b.entries,
            skipped |-> b.skipped, failed |-> b.failed, saved |-> b.saved,
            before |-> [index_file |-> index_file, emb_file |-> emb_file],
            prev |-> IF last_build.n = 0 THEN NoBuild
                     ELSE [status |-> last_build.status, n |-> last_build.n,
                           tree |-> last_build.tree,
                           generate_embeddings |-> last_build.generate_embeddings,
                           saved |-> last_build.saved]]

Build ==
    /\ last_build.n < MaxBuilds
    /\ \E generate_embeddings \in BOOLEAN, provider_up \in BOOLEAN, order \in Orders :
          /\ generate_embeddings \/ provider_up
          /\ Built(build(tree, generate_embeddings, provider_up, order, index_file,
                         emb_file),
                   generate_embeddings, provider_up, order)
    /\ UNCHANGED <<tree, searcher, found, first_load>>
    /\ UNCHANGED <<raw_text, tokens, result, foam, nsets, last, agent_vars>>

ChangeTree ==
    /\ last_build.n > 0
    /\ tree' \in Trees \ {tree}
    /\ UNCHANGED <<last_build, index_file, emb_file, searcher, found, first_load>>
    /\ UNCHANGED <<raw_text, tokens, result, foam, nsets, last, agent_vars>>

NextBuild == Build \/ ChangeTree

SpecBuild == InitBuild /\ [][NextBuild]_vars

(***************************************************************************)
(* What the indexer's contract says of the output directory and of a build *)
(* call, written from its statement.                                       *)
(***************************************************************************)
BuildReturned == last_build.status = "returned"

\* what a freshly constructed TutorialSearcher holds after loading the directory
FreshLoad == load(FreshSearcher, index_file, emb_file).searcher
FreshEntries == loaded_entries(OrEmpty(FreshLoad.entries))

\* the last build attached a vector to some entry
ProducedVectors ==
    \E i \in 1..Len(last_build.entries) : last_build.entries[i].embedding # PyNone

\* C11: in every output directory that builds have written, the embeddings file
\* is aligned with the index file: a fresh searcher that loads both has one
\* vector per entry, and the vector it scores entry i against is the vector of
\* entry i's description.
C11_Aligned ==
    (index_file.exists /\ emb_file.exists) =>
        /\ Len(emb_file.rows) = Len(index_file.rows)
        /\ \A i \in 1..Len(FreshEntries) :
               entry_embedding_of(FreshLoad, i - 1) = Encode(FreshEntries[i].description.v)

\* C12: after a build that returned without producing a vector there is no
\* embeddings file in the output directory.
C12_NoEmbeddingsFile ==
    (BuildReturned /\ ~ProducedVectors) => ~emb_file.exists

\* C13: the entries a fresh searcher loads from the index file a build wrote are
\* the entries the build returned, in the same order and equal on every
\* attribute but the embedding; no row of the file has an embedding member, and
\* every loaded entry's embedding is None.
C13_IndexRoundTrip ==
    (BuildReturned /\ last_build.saved) =>
        /\ Len(FreshEntries) = Len(last_build.entries)
        /\ \A i \in 1..Len(FreshEntries) :
               /\ \A n \in 1..Len(EntryFields) :
                      EntryFields[n] # "embedding" =>
                          FreshEntries[i][EntryFields[n]]
                              = last_build.entries[i][EntryFields[n]]
               /\ FreshEntries[i].embedding = PyNone
               /\ \A m \in 1..Len(index_file.rows[i].v) :
                      index_file.rows[i].v[m][1] # "embedding"

\* C13 witness: a build with embeddings wrote two entries, one with a boundary
\* patch whose type is a number, and a fresh searcher loads them back without
\* their embeddings.
C13_Witness ==
    /\ BuildReturned /\ last_build.saved /\ ProducedVectors
    /\ Len(last_build.entries) = 2
    /\ \E i \in 1..2 : DictHas(last_build.entries[i].boundary_patches, "wall")
                       /\ FreshEntries[i].boundary_patches
                              = last_build.entries[i].boundary_patches
                       /\ FreshEntries[i].embedding # last_build.entries[i].embedding

\* C28: after every build call that returns normally the index file exists and
\* holds exactly the entries the call returned, in the same order (a fresh
\* searcher loads them, equal on every attribute the file keeps); a build that
\* discovers no case and a build after an earlier one included.
C28_IndexHoldsReturned ==
    BuildReturned =>
        /\ index_file.exists
        /\ Len(FreshEntries) = Len(last_build.entries)
        /\ \A i \in 1..Min(Len(FreshEntries), Len(last_build.entries)) :
               \A n \in 1..Len(EntryFields) :
                   EntryFields[n] # "embedding" =>
                       FreshEntries[i][EntryFields[n]] = last_build.entries[i][EntryFields[n]]

\* C28, the builds that discovered a case: the same statement for them
C28_NonEmptyBuilds ==
    (BuildReturned /\ last_build.case_dirs # <<>>) =>
        /\ index_file.exists
        /\ Len(FreshEntries) = Len(last_build.entries)
        /\ \A i \in 1..Min(Len(FreshEntries), Len(last_build.entries)) :
               \A n \in 1..Len(EntryFields) :
                   EntryFields[n] # "embedding" =>
                       FreshEntries[i][EntryFields[n]] = last_build.entries[i][EntryFields[n]]

\* C28, the stale index: no build that discovered no case returns, after an
\* earlier build had written entries, with the index file still holding them
C28_StaleIndex ==
    ~(/\ BuildReturned
      /\ last_build.case_dirs = <<>>
      /\ last_build.n = 2
      /\ index_file.exists
      /\ Len(index_file.rows) > 0)

\* a comes before b in lexical order of their components
NameIndex(n) == CHOOSE i \in 1..Len(Names) : Names[i] = n

RECURSIVE LexBefore(_, _)
LexBefore(p, q) ==
    IF q = <<>> THEN FALSE
    ELSE IF p = <<>> THEN TRUE
    ELSE IF p[1] # q[1] THEN NameIndex(p[1]) < NameIndex(q[1])
    ELSE LexBefore(Tail(p), Tail(q))

\* the last two builds both returned, with embeddings disabled, over the same tree
TwoPlainBuilds ==
    /\ BuildReturned /\ ~last_build.generate_embeddings
    /\ last_build.prev.status = "returned" /\ ~last_build.prev.generate_embeddings
    /\ last_build.prev.tree = last_build.tree

\* C14: two builds with embeddings disabled over an unchanged tree leave the same
\* index file, whose cases are in lexical directory order, whatever order the
\* file system enumerates directories in.
C14_Deterministic ==
    TwoPlainBuilds =>
        /\ index_file = last_build.before.index_file
        /\ \A i, j \in 1..Len(last_build.case_dirs) :
               i < j => LexBefore(last_build.case_dirs[i], last_build.case_dirs[j])

\* a case whose extraction completes: its controlDict can be read and its 0/,
\* if it has one, can be listed
ControlReadable(k) == ControlDict[k].readable
ZeroListable(k) == ZeroDir[k].exists => ZeroDir[k].listable

\* C15: over an existing root build does not raise, whatever cases fail; the
\* cases whose controlDict cannot be read are counted as skipped, those whose
\* extraction raises as failed; the others, in discovery order, are the entries
\* returned and the rows of the index file; the three counts sum to the number
\* of discovered cases.
C15_CaseFailureIsolated ==
    (last_build.status # "none" /\ last_build.tree.exists) =>
        LET t         == last_build.tree
            dirs      == last_build.case_dirs
            Skipped(p) == ~ControlReadable(t.at[p])
            Fails(p)  == ControlReadable(t.at[p]) /\ ~ZeroListable(t.at[p])
            Good(p)   == ControlReadable(t.at[p]) /\ ZeroListable(t.at[p])
            good      == SelectSeq(dirs, Good)
        IN  /\ BuildReturned
            /\ last_build.skipped = Len(SelectSeq(dirs, Skipped))
            /\ last_build.failed = Len(SelectSeq(dirs, Fails))
            /\ Len(last_build.entries) + last_build.skipped + last_build.failed
                   = Len(dirs)
            /\ Len(last_build.entries) = Len(good)
            /\ \A i \in 1..Len(good) : last_build.entries[i].path = VStr(RelPath(good[i]))
            /\ dirs # <<>> =>
                   /\ last_build.saved
                   /\ Len(FreshEntries) = Len(good)
                   /\ \A i \in 1..Len(good) : FreshEntries[i].path = VStr(RelPath(good[i]))

\* C15 witness: of three discovered cases one failed, one was skipped and the
\* third was returned and written.
C15_Witness ==
    /\ BuildReturned
    /\ Len(last_build.case_dirs) = 3
    /\ last_build.failed = 1 /\ last_build.skipped = 1
    /\ Len(last_build.entries) = 1
    /\ Len(FreshEntries) = 1 /\ FreshEntries[1].path = last_build.entries[1].path

\* the directories of a tree: the slots all of whose prefixes are present
IsDirectory(t, p) == \A n \in 0..Len(p) : t.at[SubSeq(p, 1, n)] # "absent"

StrictAncestor(p, q) == Len(p) < Len(q) /\ SubSeq(q, 1, Len(p)) = p

\* the case roots the claim-and-stop rule gives
CaseRoots(t) ==
    {p \in Slots : /\ IsDirectory(t, p)
                   /\ IsCase(t, p)
                   /\ \A q \in Slots : StrictAncestor(q, p) => ~IsCase(t, q)}

\* C16: the cases a build discovers are the directories holding
\* system/controlDict none of whose ancestors holds one, each once, at any
\* depth; no entry path is a strict ancestor of another and no two entries
\* have the same path.
C16_ClaimAndStop ==
    BuildReturned =>
        LET dirs == last_build.case_dirs
            es   == last_build.entries
        IN  /\ {dirs[i] : i \in 1..Len(dirs)} = CaseRoots(last_build.tree)
            /\ \A i, j \in 1..Len(dirs) :
                   i # j => dirs[i] # dirs[j] /\ ~StrictAncestor(dirs[i], dirs[j])
            /\ \A i \in 1..Len(es) : \E j \in 1..Len(dirs) : es[i].path = VStr(RelPath(dirs[j]))
            /\ \A i, j \in 1..Len(es) : i # j => es[i].path # es[j].path

\* C16 witness: a case lying inside another case was not discovered, and a case
\* two levels down, under a directory that is no case, was.
C16_Witness ==
    /\ BuildReturned
    /\ \E p, q \in Slots :
          /\ IsCase(last_build.tree, p) /\ IsCase(last_build.tree, q)
          /\ StrictAncestor(q, p)
          /\ \A i \in 1..Len(last_build.case_dirs) : last_build.case_dirs[i] # p
    /\ \E i \in 1..Len(last_build.case_dirs) : Len(last_build.case_dirs[i]) = 2
    /\ Len(last_build.entries) = 2

\* C17: a build whose tutorials path does not exist raises, extracts nothing and
\* leaves the index file and the embeddings file of the output directory as
\* they were.
C17_RootNotFound ==
    (last_build.status # "none" /\ ~last_build.tree.exists) =>
        /\ last_build.status = "raised"
        /\ last_build.case_dirs = <<>> /\ last_build.entries = <<>>
        /\ ~last_build.saved
        /\ index_file = last_build.before.index_file
        /\ emb_file = last_build.before.emb_file

\* C17 witness: an earlier build had written both files; a build over a missing
\* root then raised and both files are still there.
C17_Witness ==
    /\ last_build.status = "raised"
    /\ ~last_build.tree.exists
    /\ last_build.prev.status = "returned" /\ last_build.prev.saved
    /\ index_file.exists /\ emb_file.exists
    /\ index_file.rows # <<>>

(***************************************************************************)
(* Coercion specification: a text holding one keyword whose value is one   *)
(* scalar token, a run of two, or a list of one, is parsed.                *)
(***************************************************************************)
RawPool ==
    {"\"a\"", "\"3\"", "\"on\"", "on", "On", "TRUE", "yes", "off", "No", "false",
     "3", "-1", "+3", "1e-06", "0.5", "1.", ".5", "1E5", "$x", "a", "1a", "e5", "."}

CoerceTexts ==
    {<<"k", r, ";">> : r \in RawPool}
    \cup {<<"k", r[1], r[2], ";">> : r \in RawPool \X RawPool}
    \cup {<<"k", "(", r, ")", ";">> : r \in RawPool}

InitCoerce ==
    /\ tokens \in CoerceTexts
    /\ result = NotParsed
    /\ foam = NoFoam
    /\ nsets = 0
    /\ last = NoLast
    /\ SearchIdle
    /\ BuildIdle
    /\ TextIdle
    /\ AgentIdle

SpecCoerce == InitCoerce /\ [][NextParse]_vars

(***************************************************************************)
(* What the contract says of a raw value, read off its characters.         *)
(***************************************************************************)
RawChars ==
    [r \in RawPool |->
        CASE r = "\"a\""  -> <<"\"", "a", "\"">>
          [] r = "\"3\""  -> <<"\"", "3", "\"">>
          [] r = "\"on\"" -> <<"\"", "o", "n", "\"">>
          [] r = "on"     -> <<"o", "n">>
          [] r = "On"     -> <<"O", "n">>
          [] r = "TRUE"   -> <<"T", "R", "U", "E">>
          [] r = "yes"    -> <<"y", "e", "s">>
          [] r = "off"    -> <<"o", "f", "f">>
          [] r = "No"     -> <<"N", "o">>
          [] r = "false"  -> <<"f", "a", "l", "s", "e">>
          [] r = "3"      -> <<"3">>
          [] r = "-1"     -> <<"-", "1">>
          [] r = "+3"     -> <<"+", "3">>
          [] r = "1e-06"  -> <<"1", "e", "-", "0", "6">>
          [] r = "0.5"    -> <<"0", ".", "5">>
          [] r = "1."     -> <<"1", ".">>
          [] r = ".5"     -> <<".", "5">>
          [] r = "1E5"    -> <<"1", "E", "5">>
          [] r = "$x"     -> <<"$", "x">>
          [] r = "a"      -> <<"a">>
          [] r = "1a"     -> <<"1", "a">>
          [] r = "e5"     -> <<"e", "5">>
          [] r = "."      -> <<".">>]

\* the characters of the raw value made of the given tokens
RECURSIVE RunChars(_)
RunChars(parts) ==
    IF parts = <<>> THEN <<>>
    ELSE IF Len(parts) = 1 THEN RawChars[parts[1]]
    ELSE RawChars[parts[1]] \o <<" ">> \o RunChars(Tail(parts))

RECURSIVE StrOf(_)
StrOf(cs) == IF cs = <<>> THEN "" ELSE cs[1] \o StrOf(Tail(cs))

Enclosed(cs) == Len(cs) >= 2 /\ cs[1] = "\"" /\ cs[Len(cs)] = "\""

IsDigit(c) == \E n \in 1..Len(Digits) : Digits[n] = c
DigitValue(c) == (CHOOSE n \in 1..Len(Digits) : Digits[n] = c) - 1

\* digits with at most one decimal point among them, and at least one digit
IsMantissa(cs) ==
    /\ \A i \in 1..Len(cs) : IsDigit(cs[i]) \/ cs[i] = "."
    /\ \E i \in 1..Len(cs) : IsDigit(cs[i])
    /\ Cardinality({i \in 1..Len(cs) : cs[i] = "."}) <= 1

IsSign(c) == c \in {"+", "-"}

Unsigned(cs) == IF cs # <<>> /\ IsSign(cs[1]) THEN Tail(cs) ELSE cs

\* an optional sign, a mantissa, and an optional exponent: e or E, an optional
\* sign and digits
IsNumeric(cs) ==
    LET body  == Unsigned(cs)
        marks == {i \in 1..Len(body) : body[i] \in {"e", "E"}}
    IN  IF marks = {} THEN IsMantissa(body)
        ELSE LET m   == CHOOSE i \in marks : \A j \in marks : i <= j
                 exp == Unsigned(SubSeq(body, m + 1, Len(body)))
             IN  /\ IsMantissa(SubSeq(body, 1, m - 1))
                 /\ exp # <<>>
                 /\ \A i \in 1..Len(exp) : IsDigit(exp[i])

HasPointOrExponent(cs) == \E i \in 1..Len(cs) : cs[i] \in {".", "e", "E"}

RECURSIVE NatValue(_)
NatValue(cs) ==
    IF cs = <<>> THEN 0
    ELSE 10 * NatValue(SubSeq(cs, 1, Len(cs) - 1)) + DigitValue(cs[Len(cs)])

IntValue(cs) == IF cs[1] = "-" THEN -NatValue(Tail(cs)) ELSE NatValue(Unsigned(cs))

TrueWords == {<<"t", "r", "u", "e">>, <<"o", "n">>, <<"y", "e", "s">>}
FalseWords == {<<"f", "a", "l", "s", "e">>, <<"o", "f", "f">>, <<"n", "o">>}

\* the class the contract puts a raw value in, by priority
ClassOf(cs) ==
    IF Enclosed(cs) THEN "quoted"
    ELSE IF LowerSeq(cs) \in TrueWords THEN "true"
    ELSE IF LowerSeq(cs) \in FalseWords THEN "false"
    ELSE IF IsNumeric(cs) /\ HasPointOrExponent(cs) THEN "float"
    ELSE IF IsNumeric(cs) THEN "integer"
    ELSE "string"

\* the value of a raw value of each class; of a float the contract fixes the type
Coerced(cs, got) ==
    CASE ClassOf(cs) = "quoted"  -> got = VStr(StrOf(SubSeq(cs, 2, Len(cs) - 1)))
      [] ClassOf(cs) = "true"    -> got = VBool(TRUE)
      [] ClassOf(cs) = "false"   -> got = VBool(FALSE)
      [] ClassOf(cs) = "float"   -> got.t = "float"
      [] ClassOf(cs) = "integer" -> got = VInt(IntValue(cs))
      [] ClassOf(cs) = "string"  -> got = VStr(StrOf(cs))

\* the value the parse gave the keyword k
ValueOfK == DictAt(result.doc.data, "k")

\* C18: the value of a scalar is classified by priority: enclosed in double
\* quotes, the unquoted string, whatever it looks like; else true/on/yes and
\* false/off/no in any case, a boolean; else a number, an integer unless it has
\* a decimal point or an exponent marker, then a float (1e-06 is 1e-6); else
\* the string unchanged, a $-reference included.  So for a one-token value, a
\* run of tokens and the item of a list.
C18_CoercePriority ==
    result.status # "none" =>
        /\ result.status = "returned"
        /\ tokens[2] # "(" =>
               Coerced(RunChars(SubSeq(tokens, 2, Len(tokens) - 1)), ValueOfK)
        /\ tokens[2] = "(" =>
               /\ ValueOfK.t = "list" /\ Len(ValueOfK.v) = 1
               /\ Coerced(RawChars[tokens[3]], ValueOfK.v[1])
        /\ tokens = <<"k", "1e-06", ";">> => ValueOfK = VFloat("1e-06")

\* C18 witness: a quoted 3 was parsed and stayed the string 3, and as the item
\* of a list On became true.
C18_Witness ==
    /\ result.status = "returned"
    /\ \/ tokens = <<"k", "\"3\"", ";">> /\ ValueOfK = VStr("3")
       \/ tokens = <<"k", "(", "On", ")", ";">> /\ ValueOfK = VList(<<VBool(TRUE)>>)

(***************************************************************************)
(* Access specification: set, the same set again, and get with a default   *)
(* of the caller's, on a parsed document.  Is is identity; it is equality  *)
(* for None, for a default no node of the document equals, and for a       *)
(* default that is a node on the walked path (two nodes on one path are    *)
(* nested, never equal), which are the defaults drawn here.                *)
(***************************************************************************)
\* set without the isinstance test on the intermediate node
RECURSIVE set_raises_unguarded(_, _)
set_raises_unguarded(node, parts) ==
    IF ~IsDict(node) THEN TRUE
    ELSE IF Len(parts) = 1 THEN FALSE
    ELSE LET part  == parts[1]
             child == IF ~DictHas(node, part) THEN EmptyDict ELSE DictAt(node, part)
         IN  set_raises_unguarded(child, Tail(parts))

\* set raises TypeError: "part not in node", "node[part] = {}" or
\* "node[parts[-1]] = value" is run on a node that is not a mapping
RECURSIVE set_raises(_, _)
set_raises(node, parts) ==
    IF ~IsDict(node) THEN TRUE
    ELSE IF Len(parts) = 1 THEN FALSE
    ELSE LET part  == parts[1]
             child == IF ~DictHas(node, part) \/ ~IsDict(DictAt(node, part))
                      THEN EmptyDict
                      ELSE DictAt(node, part)
         IN  set_raises(child, Tail(parts))

\* the call foam.set(parts, value) on the document
set_call(doc, parts, value) ==
    IF set_raises(doc.data, parts)
    THEN [raised |-> TRUE, doc |-> doc]
    ELSE [raised |-> FALSE, doc |-> set(doc, parts, value)]

SetPath ==
    /\ nsets < MaxSets
    /\ \E parts \in PathSet, value \in ValueSet :
          LET r == set_call(foam, parts, value)
          IN  /\ foam' = r.doc
              /\ last' = [op |-> "set", path |-> parts, value |-> value,
                          before |-> foam, raised |-> r.raised]
    /\ nsets' = nsets + 1
    /\ UNCHANGED <<raw_text, tokens, result>>
    /\ UNCHANGED <<search_vars, build_vars, agent_vars>>

\* the set just made, made again
SetSame ==
    /\ last.op = "set"
    /\ LET r == set_call(foam, last.path, last.value)
       IN  /\ foam' = r.doc
           /\ last' = [op |-> "setsame", path |-> last.path, value |-> last.value,
                       before |-> foam, raised |-> r.raised]
    /\ UNCHANGED <<raw_text, tokens, result, nsets>>
    /\ UNCHANGED <<search_vars, build_vars, agent_vars>>

\* the node a path of existing segments leads to
RECURSIVE NodeAt(_, _)
NodeAt(node, parts) ==
    IF parts = <<>> THEN node ELSE NodeAt(DictAt(node, parts[1]), Tail(parts))

\* every segment of the path exists along nested mappings
RECURSIVE PathExists(_, _)
PathExists(node, parts) ==
    IF parts = <<>> THEN TRUE
    ELSE IF ~IsDict(node) THEN FALSE
    ELSE IF ~DictHas(node, parts[1]) THEN FALSE
    ELSE PathExists(DictAt(node, parts[1]), Tail(parts))

\* get with a default that no node of the document is
GetPath ==
    /\ \E parts \in PathSet, default \in DefaultSet :
          last' = [op |-> "get", path |-> parts, default |-> default,
                   got |-> get(foam, parts, default), before |-> foam,
                   aliased |-> FALSE]
    /\ UNCHANGED <<raw_text, tokens, result, foam, nsets>>
    /\ UNCHANGED <<search_vars, build_vars, agent_vars>>

\* get with a default that is a node of the document on the path asked for:
\* d = foam.data[p1]...[pk]; foam.get(path, d)
GetAliased ==
    /\ \E parts \in PathSet, k \in 1..MaxPathLen :
          /\ k <= Len(parts)
          /\ PathExists(foam.data, SubSeq(parts, 1, k))
          /\ LET default == NodeAt(foam.data, SubSeq(parts, 1, k))
             IN  last' = [op |-> "get", path |-> parts, default |-> default,
                          got |-> get(foam, parts, default), before |-> foam,
                          aliased |-> TRUE]
    /\ UNCHANGED <<raw_text, tokens, result, foam, nsets>>
    /\ UNCHANGED <<search_vars, build_vars, agent_vars>>

NextAccess == SetPath \/ SetSame \/ GetPath \/ GetAliased

SpecAccess == InitDict /\ [][NextAccess]_vars

\* C19: set on any document and path (the empty string, empty segments, a
\* prefix holding a scalar or a list included) does not raise; after it every
\* segment of the path exists along nested mappings and the last holds the
\* value; and the same set made again leaves the document as the first left it.
C19_SetTotalIdempotent ==
    last.op \in {"set", "setsame"} =>
        /\ ~last.raised
        /\ PathExists(foam.data, last.path)
        /\ NodeAt(foam.data, last.path) = last.value
        /\ last.op = "setsame" => foam = last.before

\* C19 witness: on the document of "a { b 0.5; }" the value at a.b.a was set
\* through the scalar a.b held, then set again, and the document stayed.
C19_Witness ==
    /\ last.op = "setsame"
    /\ nsets = 1
    /\ last.path = <<"a", "b", "a">>
    /\ PathExists(result.doc.data, <<"a", "b">>)
    /\ ~IsDict(NodeAt(result.doc.data, <<"a", "b">>))
    /\ ~last.raised
    /\ NodeAt(foam.data, last.path) = last.value
    /\ foam = last.before

\* C20: get returns the value stored at the path when every segment exists
\* along nested mappings, and the caller's default otherwise; it does not raise
\* and leaves the document as it was.
C20_GetStoredOrDefault ==
    last.op = "get" =>
        /\ last.got = IF PathExists(last.before.data, last.path)
                      THEN NodeAt(last.before.data, last.path)
                      ELSE last.default
        /\ foam = last.before

(***************************************************************************)
(* What the block grammar says of the first key of a text: the kind of its *)
(* value by the token after it, and the value itself where the text after  *)
(* that token is flat (words and ';' only), read off the tokens.           *)
(***************************************************************************)
IsDelimiter(tok) == tok \in {"{", "}", "(", ")", ";"}

\* the first position from i on that holds a token of the set, or Len + 1
RECURSIVE FirstOf(_, _, _)
FirstOf(toks, i, stops) ==
    IF i > Len(toks) THEN i
    ELSE IF toks[i] \in stops THEN i
    ELSE FirstOf(toks, i + 1, stops)

AllWords(toks) == \A i \in 1..Len(toks) : ~IsDelimiter(toks[i])

\* the mapping a run of statements "key ;" and "key word ... ;" spells
RECURSIVE ReadStatements(_, _)
ReadStatements(toks, entries) ==
    IF toks = <<>> THEN entries
    ELSE LET semi == FirstOf(toks, 1, {";"})
             stmt == SubSeq(toks, 1, semi - 1)
             rest == SubSeq(toks, semi + 1, Len(toks))
         IN  IF stmt = <<>> THEN ReadStatements(rest, entries)
             ELSE ReadStatements(rest,
                      DictPut(entries, stmt[1],
                              IF Len(stmt) = 1 THEN VBool(TRUE)
                              ELSE VStr(JoinSpace(Tail(stmt)))))

\* statements, each ended by its ';'
IsStatements(toks) ==
    /\ \A i \in 1..Len(toks) : toks[i] = ";" \/ ~IsDelimiter(toks[i])
    /\ toks # <<>> => toks[Len(toks)] = ";"
    /\ \A i \in 1..Len(toks) : ~IsInclude(toks[i])

\* the text begins with a key that is a plain word and is not met again
FirstKeyOnce ==
    /\ tokens # <<>>
    /\ tokens[1] \in {"a", "b"}
    /\ \A i \in 2..Len(tokens) : tokens[i] # tokens[1]

\* the tokens from the third on, up to the first closer c or the end of input
Inner(c) == SubSeq(tokens, 3, FirstOf(tokens, 3, {c}) - 1)

FirstValue == DictAt(result.doc.data, tokens[1])

\* the items of a flat list: its words, the ';' among them passed over
FlatItems(toks) ==
    LET IsItem(tok) == tok # ";"
        words == SelectSeq(toks, IsItem)
    IN  VList([i \in 1..Len(words) |-> VStr(words[i])])

\* C21: the token after a key decides the kind of its value: '{' a mapping
\* holding the block's entries, '(' a list in source order whose nested '(' is a
\* list and nested '{' a mapping, ';' a bare keyword (stored as true), any other
\* token the coerced run of tokens joined by single spaces up to the ';' that
\* ends it; a key that is the last token of the input is not added.
C21_ValueKindByNextToken ==
    (result.status # "none" /\ FirstKeyOnce) =>
        /\ result.status = "returned"
        /\ Len(tokens) = 1 => result.doc.data = EmptyDict
        /\ Len(tokens) > 1 =>
             /\ DictHas(result.doc.data, tokens[1])
             /\ tokens[2] = "{" =>
                  /\ IsDict(FirstValue)
                  /\ IsStatements(Inner("}")) =>
                         FirstValue = ReadStatements(Inner("}"), EmptyDict)
             /\ tokens[2] = "(" =>
                  /\ FirstValue.t = "list"
                  /\ (\A i \in 1..Len(Inner(")")) : ~IsDelimiter(Inner(")")[i])
                                                      \/ Inner(")")[i] = ";")
                         => FirstValue = FlatItems(Inner(")"))
                  /\ (Len(tokens) > 2 /\ tokens[3] = "(") =>
                         (FirstValue.v # <<>> /\ FirstValue.v[1].t = "list")
                  /\ (Len(tokens) > 2 /\ tokens[3] = "{") =>
                         (FirstValue.v # <<>> /\ FirstValue.v[1].t = "dict")
             /\ tokens[2] = ";" => FirstValue = VBool(TRUE)
             /\ (~IsDelimiter(tokens[2]) /\ FirstOf(tokens, 2, {";"}) <= Len(tokens)
                 /\ AllWords(SubSeq(tokens, 2, FirstOf(tokens, 2, {";"}) - 1))) =>
                    FirstValue =
                        VStr(JoinSpace(SubSeq(tokens, 2, FirstOf(tokens, 2, {";"}) - 1)))

\* C21 witness: each kind was parsed: a block of one bare keyword, a list with
\* a nested list, and a run of two words.
C21_Witness ==
    /\ result.status = "returned"
    /\ \/ tokens = <<"a", "{", "b", ";", "}">>
          /\ FirstValue = VDict(<<<<"b", VBool(TRUE)>>>>)
       \/ tokens = <<"a", "(", "(", "b", ")">>
          /\ FirstValue = VList(<<VList(<<VStr("b")>>)>>)
       \/ tokens = <<"a", "b", "FoamFile", ";">> /\ FirstValue = VStr("b FoamFile")

(***************************************************************************)
(* From the text to the tokens: _strip_comments, then _tokenize.  A text   *)
(* is its sequence of characters.  _RE_FOAM_HEADER matches only a banner   *)
(* holding '-' and "C++", which the texts here cannot spell, so the first  *)
(* substitution of _strip_comments leaves them as they are.                *)
(***************************************************************************)
MaxChars == 6

TextAlphabet == {"\"", "/", "*", "a", "(", "\n"}

RECURSIVE CharLists(_)
CharLists(n) ==
    IF n = 0 THEN {<<>>}
    ELSE LET shorter == CharLists(n - 1)
         IN  shorter \cup {Append(cs, c) : cs \in {x \in shorter : Len(x) = n - 1},
                                           c \in TextAlphabet}

\* the first i >= from with cs[i] = c1 and cs[i + 1] = c2, or 0
RECURSIVE FindPair(_, _, _, _)
FindPair(cs, from, c1, c2) ==
    IF from + 1 > Len(cs) THEN 0
    ELSE IF cs[from] = c1 /\ cs[from + 1] = c2 THEN from
    ELSE FindPair(cs, from + 1, c1, c2)

\* the first i >= from with cs[i] = c, or 0
RECURSIVE FindChar(_, _, _)
FindChar(cs, from, c) ==
    IF from > Len(cs) THEN 0
    ELSE IF cs[from] = c THEN from
    ELSE FindChar(cs, from + 1, c)

RECURSIVE strip_multi(_)
\* the rest of the substitution once the opener at s is known to close at e
strip_multi_at(cs, s, e) ==
    IF e = 0 THEN cs
    ELSE SubSeq(cs, 1, s - 1) \o <<" ">> \o strip_multi(SubSeq(cs, e + 2, Len(cs)))

strip_multi_from(cs, s) ==
    IF s = 0 THEN cs ELSE strip_multi_at(cs, s, FindPair(cs, s + 2, "*", "/"))

\* _RE_COMMENT_MULTI.sub(" ", text): /\*.*?\*/ with DOTALL
strip_multi(cs) == strip_multi_from(cs, FindPair(cs, 1, "/", "*"))

RECURSIVE strip_single(_)
\* the comment that opens at s runs to the end of its line, at e, or of the text
strip_single_at(cs, s, e) ==
    IF e = 0 THEN SubSeq(cs, 1, s - 1)
    ELSE SubSeq(cs, 1, s - 1) \o <<"\n">> \o strip_single(SubSeq(cs, e + 1, Len(cs)))

strip_single_from(cs, s) ==
    IF s = 0 THEN cs ELSE strip_single_at(cs, s, FindChar(cs, s + 2, "\n"))

\* _RE_COMMENT_SINGLE.sub("", text): //[^\n]*
strip_single(cs) == strip_single_from(cs, FindPair(cs, 1, "/", "/"))

strip_comments(cs) == strip_single(strip_multi(cs))

IsSpace(c) == c \in {" ", "\n"}

\* a character of [^\s{}();\"]
IsBare(c) == ~IsSpace(c) /\ c \notin {"{", "}", "(", ")", ";", "\""}

\* the end of the run of bare characters that begins at i
RECURSIVE BareEnd(_, _)
BareEnd(cs, i) ==
    IF i + 1 <= Len(cs) /\ IsBare(cs[i + 1]) THEN BareEnd(cs, i + 1) ELSE i

RECURSIVE StrOfChars(_)
StrOfChars(cs) == IF cs = <<>> THEN "" ELSE cs[1] \o StrOfChars(Tail(cs))

RECURSIVE tokenize_from(_, _)
\* the token cs[i..j], then the scan goes on after j
token_then(cs, i, j) == <<StrOfChars(SubSeq(cs, i, j))>> \o tokenize_from(cs, j + 1)

\* at a double quote: the string up to the next double quote, or, when there is
\* none, no token begins here
quote_then(cs, i, close) ==
    IF close = 0 THEN tokenize_from(cs, i + 1) ELSE token_then(cs, i, close)

\* _RE_TOKEN.findall from position i on: the alternatives in their order
tokenize_from(cs, i) ==
    IF i > Len(cs) THEN <<>>
    ELSE IF cs[i] = "\"" THEN quote_then(cs, i, FindChar(cs, i + 1, "\""))
    ELSE IF cs[i] \in {"{", "}", "(", ")", ";"} THEN token_then(cs, i, i)
    ELSE IF IsBare(cs[i]) THEN token_then(cs, i, BareEnd(cs, i))
    ELSE tokenize_from(cs, i + 1)

tokenize(cs) == tokenize_from(cs, 1)

(***************************************************************************)
(* Tokenizer specification: a text is given, and its comments are stripped *)
(* and it is tokenized, as parse_string does before the descent.           *)
(***************************************************************************)
InitTokenize ==
    /\ raw_text \in CharLists(MaxChars)
    /\ tokens = <<>>
    /\ result = NotParsed
    /\ foam = NoFoam
    /\ nsets = 0
    /\ last = NoLast
    /\ SearchIdle
    /\ tree = NoTree
    /\ last_build = NoBuild
    /\ AgentIdle

Tokenize ==
    /\ last.op = "none"
    /\ tokens' = tokenize(strip_comments(raw_text))
    /\ last' = [op |-> "tokenize"]
    /\ UNCHANGED <<raw_text, result, foam, nsets>>
    /\ UNCHANGED <<search_vars, build_vars, agent_vars>>

NextTokenize == Tokenize

SpecTokenize == InitTokenize /\ [][NextTokenize]_vars

\* the double-quoted strings of a text, in order: from a double quote to the
\* next one, the scan going on after it
RECURSIVE QuotedStrings(_, _)
QuotedStrings(cs, from) ==
    LET open  == FindChar(cs, from, "\"")
        close == IF open = 0 THEN 0 ELSE FindChar(cs, open + 1, "\"")
    IN  IF close = 0 THEN <<>>
        ELSE <<StrOfChars(SubSeq(cs, open, close))>> \o QuotedStrings(cs, close + 1)

\* position i of the text is inside one of its double-quoted strings
InsideQuotes(cs, i) ==
    /\ Cardinality({j \in 1..(i - 1) : cs[j] = "\""}) % 2 = 1
    /\ \E j \in (i + 1)..Len(cs) : cs[j] = "\""

\* outside its double-quoted strings the text has no '/': all it has of
\* comment openers is inside a string
NoCommentOutsideStrings(cs) ==
    \A i \in 1..Len(cs) : cs[i] = "/" => InsideQuotes(cs, i)

\* C22: every double-quoted string of the text reaches the descent as exactly
\* one token that holds its original characters, whatever they are (checked
\* here: each double-quoted string of the text is one of the tokens).  So for a
\* text that has no '/' outside its strings.
C22_QuotedVerbatim ==
    (last.op = "tokenize" /\ NoCommentOutsideStrings(raw_text)) =>
        LET quoted == QuotedStrings(raw_text, 1)
        IN  \A i \in 1..Len(quoted) : \E j \in 1..Len(tokens) : tokens[j] = quoted[i]

(***************************************************************************)
(* The cursor of the descent.  One pass of each loop, begun at pos, leaves *)
(* the cursor where the next pass begins.                                  *)
(***************************************************************************)
\* a pass of the loop of _parse_block_contents begins at pos
BlockPassAt(toks, pos) == pos < Len(toks) /\ At(toks, pos) # "}"

BlockPass(toks, pos) ==
    IF At(toks, pos) = ";" THEN pos + 1
    ELSE IF IsInclude(At(toks, pos))
    THEN (IF pos + 1 < Len(toks) THEN pos + 2 ELSE pos + 1)
    ELSE IF pos + 1 >= Len(toks) THEN pos + 1
    ELSE block_entry(toks, pos + 1, StripQuotes(At(toks, pos)), EmptyDict).pos

\* a pass of the loop of _parse_list begins at pos
ListPassAt(toks, pos) == pos < Len(toks) /\ At(toks, pos) # ")"

ListPass(toks, pos) ==
    IF At(toks, pos) = "(" THEN parse_list(toks, pos + 1).pos
    ELSE IF At(toks, pos) = "{"
    THEN consume_optional(toks, parse_block_contents(toks, pos + 1).pos, "}").pos
    ELSE pos + 1

\* a pass of the loop of _parse_value begins at pos
ValuePassAt(toks, pos) == pos < Len(toks) /\ At(toks, pos) \notin {";", "}", "{"}

ValuePass(toks, pos) ==
    IF At(toks, pos) = "(" THEN parse_list(toks, pos + 1).pos ELSE pos + 1

\* C23: for every token list the descent ends, the cursor of parse ends within
\* the token count; each of the three procedures, begun at any cursor, returns
\* a cursor that is not before it and not past the token count; and every pass
\* of each loop leaves the cursor at least one token further.
C23_CursorAdvances ==
    result.status # "none" =>
        /\ result.status = "returned"
        /\ result.pos \in 0..Len(tokens)
        /\ \A pos \in 0..Len(tokens) :
              /\ parse_block_contents(tokens, pos).pos \in pos..Len(tokens)
              /\ parse_list(tokens, pos).pos \in pos..Len(tokens)
              /\ parse_value(tokens, pos).pos \in pos..Len(tokens)
              /\ BlockPassAt(tokens, pos) => BlockPass(tokens, pos) \in (pos + 1)..Len(tokens)
              /\ ListPassAt(tokens, pos) => ListPass(tokens, pos) \in (pos + 1)..Len(tokens)
              /\ ValuePassAt(tokens, pos) => ValuePass(tokens, pos) \in (pos + 1)..Len(tokens)

\* C23 witness: an unbalanced text, a list that holds an unclosed block, was
\* parsed through the three procedures and the cursor ended on the token count.
C23_Witness ==
    /\ result.status = "returned"
    /\ Len(tokens) >= 5
    /\ tokens[1] \in {"a", "b"} /\ tokens[2] = "(" /\ tokens[3] = "{"
    /\ tokens[4] \in {"a", "b"} /\ tokens[5] \in {"a", "b"}
    /\ HasUnclosed(tokens)
    /\ result.pos = Len(tokens)

(***************************************************************************)
(* What the indexer's contract says of the two flags of an entry.          *)
(***************************************************************************)
\* the kind of the case directory an entry was made of
KindOfEntry(e) ==
    last_build.tree.at[CHOOSE p \in Slots : RelPath(p) = e.path.v]

HasTag(e, tag) == \E i \in 1..Len(e.physics_tags.v) : e.physics_tags.v[i] = VStr(tag)

ThermoFileExists(k) == ConstantDir[k].thermo

\* constant/transportProperties is there, can be read and has a phases entry
PhasesEntry(k) ==
    /\ ConstantDir[k].transport.exists
    /\ ConstantDir[k].transport.file.readable
    /\ "phases" \in TopLevelKeys(ConstantDir[k].transport.file.tokens)

\* C24: for every indexed case has_heat_transfer is true exactly when the
\* heat_transfer tag is among the entry's tags or constant/thermophysicalProperties
\* exists, and has_multiphase exactly when the multiphase tag is among them or
\* constant/transportProperties has a phases entry.
C24_FlagsExact ==
    BuildReturned =>
        \A i \in 1..Len(last_build.entries) :
            LET e == last_build.entries[i]
                k == KindOfEntry(e)
            IN  /\ e.has_heat_transfer
                       = VBool(HasTag(e, "heat_transfer") \/ ThermoFileExists(k))
                /\ e.has_multiphase = VBool(HasTag(e, "multiphase") \/ PhasesEntry(k))

\* system/<name> exists in a case of kind k
SystemFileExists(k, name) == \E i \in 1..Len(SystemFiles[k]) : SystemFiles[k][i] = name

\* C25: the mesh_type of every entry is one of snappyHexMesh, blockMesh and
\* external: snappyHexMesh if system/snappyHexMeshDict exists, whether or not
\* blockMeshDict does, else blockMesh if system/blockMeshDict exists, else
\* external.
C25_MeshTypeEnumeration ==
    BuildReturned =>
        \A i \in 1..Len(last_build.entries) :
            LET e == last_build.entries[i]
                k == KindOfEntry(e)
            IN  /\ e.mesh_type.v \in {"snappyHexMesh", "blockMesh", "external"}
                /\ SystemFileExists(k, "snappyHexMeshDict") => e.mesh_type.v = "snappyHexMesh"
                /\ (~SystemFileExists(k, "snappyHexMeshDict")
                    /\ SystemFileExists(k, "blockMeshDict")) => e.mesh_type.v = "blockMesh"
                /\ (~SystemFileExists(k, "snappyHexMeshDict")
                    /\ ~SystemFileExists(k, "blockMeshDict")) => e.mesh_type.v = "external"

\* C25 witness: a build returned an entry for a case that has both dictionaries,
\* tagged snappyHexMesh, and one for a case that has neither, tagged external.
C25_Witness ==
    /\ BuildReturned
    /\ \E i, j \in 1..Len(last_build.entries) :
          /\ SystemFileExists(KindOfEntry(last_build.entries[i]), "snappyHexMeshDict")
          /\ SystemFileExists(KindOfEntry(last_build.entries[i]), "blockMeshDict")
          /\ last_build.entries[i].mesh_type = VStr("snappyHexMesh")
          /\ ~SystemFileExists(KindOfEntry(last_build.entries[j]), "blockMeshDict")
          /\ last_build.entries[j].mesh_type = VStr("external")

\* ---------------------------------------------------------------------------
\* The agent loop and its permission check (core/permissions.py,
\* core/agent_loop.py).  One turn is one answer of the language model; an
\* answer that calls a tool carries one tool use.
\* ---------------------------------------------------------------------------

\* config.MAX_TURNS, kept small
MaxTurns == 2

PermissionLevels == {"auto", "notify", "approve"}

PermissionModes == {"auto_approve", "standard", "strict"}

\* the tools the loop was constructed with, each with its permission_level
ToolLevel == [read |-> "auto", write |-> "notify", run |-> "approve"]

\* the names a tool use may carry: the registered tools and one that is not
ToolUseNames == DOMAIN ToolLevel \cup {"ghost"}

\* PermissionChecker.requires_approval
requires_approval(mode, level) ==
    IF mode = "auto_approve" THEN FALSE
    ELSE IF mode = "strict" THEN level \in {"notify", "approve"}
    ELSE level = "approve"

\* PermissionChecker.should_notify
should_notify(mode, level) ==
    IF mode = "auto_approve" THEN FALSE
    ELSE level \in {"notify", "approve"}

Event(type, tool) == [type |-> type, tool |-> tool]

\* the decision of the permission check: approved starts True and is replaced
\* by the callback's answer only if a callback was given
approved_by(has_callback, answer) == IF has_callback THEN answer ELSE TRUE

\* AgentLoop._execute_tool for a registered tool that needs approval
execute_asked(name, level, mode, has_callback, answer) ==
    IF ~approved_by(has_callback, answer)
    THEN [raised |-> TRUE,
          call |-> [tool |-> name, level |-> level, asked |-> has_callback,
                    answer |-> answer, executed |-> FALSE, is_error |-> FALSE],
          events |-> <<Event("approval_required", name)>>]
    ELSE [raised |-> FALSE,
          call |-> [tool |-> name, level |-> level, asked |-> has_callback,
                    answer |-> answer, executed |-> TRUE, is_error |-> FALSE],
          events |-> <<Event("approval_required", name)>>
                     \o (IF should_notify(mode, level)
                         THEN <<Event("tool_notify", name)>> ELSE <<>>)
                     \o <<Event("tool_call", name), Event("tool_result", name)>>]

\* AgentLoop._execute_tool for a registered tool that needs no approval
execute_free(name, level, mode) ==
    [raised |-> FALSE,
     call |-> [tool |-> name, level |-> level, asked |-> FALSE,
               answer |-> FALSE, executed |-> TRUE, is_error |-> FALSE],
     events |-> (IF should_notify(mode, level)
                 THEN <<Event("tool_notify", name)>> ELSE <<>>)
                \o <<Event("tool_call", name), Event("tool_result", name)>>]

\* AgentLoop._execute_tool: an unknown tool gives an error result; a known one
\* passes the permission check, is executed and gives its result
execute_tool(name, mode, has_callback, answer) ==
    IF name \notin DOMAIN ToolLevel
    THEN [raised |-> FALSE,
          call |-> [tool |-> name, level |-> "none", asked |-> FALSE,
                    answer |-> FALSE, executed |-> FALSE, is_error |-> TRUE],
          events |-> <<Event("tool_error", name)>>]
    ELSE IF requires_approval(mode, ToolLevel[name])
         THEN execute_asked(name, ToolLevel[name], mode, has_callback, answer)
         ELSE execute_free(name, ToolLevel[name], mode)

\* AgentLoop.run after the tool use of one turn: PermissionDeniedError ends the
\* loop, and so does the turn limit
run_after(a, done) ==
    [a EXCEPT !.turn = a.turn + 1,
              !.calls = Append(a.calls, done.call),
              !.events = a.events \o done.events,
              !.status = IF done.raised THEN "permission_denied"
                         ELSE IF a.turn + 1 >= MaxTurns THEN "max_turns"
                         ELSE "running"]

InitAgent ==
    /\ ParserIdle
    /\ SearchIdle
    /\ BuildIdle
    /\ TextIdle
    /\ \E mode \in PermissionModes, has_callback \in BOOLEAN :
          agent = [status |-> "running", mode |-> mode, has_callback |-> has_callback,
                   turn |-> 0, calls |-> <<>>, events |-> <<>>]

\* one turn of AgentLoop.run in which the model calls a tool; answer is what the
\* approval callback returns if it is called
ToolTurn ==
    /\ agent.status = "running"
    /\ agent.turn < MaxTurns
    /\ \E name \in ToolUseNames, answer \in BOOLEAN :
          agent' = run_after(agent, execute_tool(name, agent.mode, agent.has_callback, answer))
    /\ UNCHANGED <<parser_vars, search_vars, build_vars>>

\* one turn of AgentLoop.run in which the model calls no tool
EndTurn ==
    /\ agent.status = "running"
    /\ agent.turn < MaxTurns
    /\ agent' = [agent EXCEPT !.turn = agent.turn + 1, !.status = "end_turn"]
    /\ UNCHANGED <<parser_vars, search_vars, build_vars>>

\* one turn of AgentLoop.run in which the call of the model raises
LlmFails ==
    /\ agent.status = "running"
    /\ agent.turn < MaxTurns
    /\ agent' = [agent EXCEPT !.turn = agent.turn + 1, !.status = "error"]
    /\ UNCHANGED <<parser_vars, search_vars, build_vars>>

NextAgent == ToolTurn \/ EndTurn \/ LlmFails

SpecAgent == InitAgent /\ [][NextAgent]_vars

\* the levels that need approval in a mode, as the permission model states them
NeedsConfirmation(mode, level) ==
    \/ mode = "standard" /\ level = "approve"
    \/ mode = "strict" /\ level \in {"notify", "approve"}

\* C26: a tool call whose level needs approval in the active mode (APPROVE in
\* standard mode, NOTIFY and APPROVE in strict mode) is executed only after the
\* approval callback was called for it and answered yes; and a call of an
\* AUTO-level tool never calls the approval callback.
C26_ExecuteOnlyConfirmed ==
    agent.status # "none" =>
        \A i \in 1..Len(agent.calls) :
            LET c == agent.calls[i]
            IN  /\ (NeedsConfirmation(agent.mode, c.level) /\ c.executed)
                      => (c.asked /\ c.answer)
                /\ c.level = "auto" => ~c.asked

\* C26 (with a callback): the same statement for the loops that were given an
\* approval callback
C26_WithCallback ==
    (agent.status # "none" /\ agent.has_callback) =>
        \A i \in 1..Len(agent.calls) :
            LET c == agent.calls[i]
            IN  /\ (NeedsConfirmation(agent.mode, c.level) /\ c.executed)
                      => (c.asked /\ c.answer)
                /\ (NeedsConfirmation(agent.mode, c.level) /\ ~(c.asked /\ c.answer))
                      => ~c.executed
                /\ c.level = "auto" => ~c.asked

\* the keys of a parsed value at every nesting depth: those of a mapping, of
\* the mappings it holds, and of the mappings held in lists
RECURSIVE KeysWithin(_)
KeysWithin(x) ==
    IF x.t = "dict"
    THEN UNION {{x.v[i][1]} \cup KeysWithin(x.v[i][2]) : i \in 1..Len(x.v)}
    ELSE IF x.t = "list" THEN UNION {KeysWithin(x.v[i]) : i \in 1..Len(x.v)}
    ELSE {}

\* C29: no structural delimiter ('{', '}', '(', ')' or ';') is stored as a key of
\* a parsed mapping, at any nesting depth, for any token sequence; a scalar run
\* ended by '{' does not turn the '{' into a key.
C29_NoDelimiterKey ==
    result.status = "returned" =>
        \A k \in KeysWithin(result.doc.data) \cup KeysWithin(result.doc.foam_file) :
            ~IsDelimiter(k)

\* C29, the scalar run ended by '{': a key, a word and a block leave no key '{'
C29_RunEndedByBrace ==
    (/\ result.status = "returned"
     /\ Len(tokens) >= 3
     /\ ~IsDelimiter(tokens[1]) /\ ~IsDelimiter(tokens[2])
     /\ tokens[3] = "{")
        => "{" \notin KeysWithin(result.doc.data)

\* C29, the delimiters that are never keys: '}' and ';'
C29_CloserNeverKey ==
    result.status = "returned" =>
        \A k \in KeysWithin(result.doc.data) \cup KeysWithin(result.doc.foam_file) :
            k \notin {"}", ";"}

\* what set(parts, value) may change of a mapping: nothing beside the path.
\* Every key the mapping had is still there and, but for the first segment,
\* holds what it held; a mapping held at an intermediate segment is changed
\* along the rest of the path only; keepIntermediate asks in addition that a
\* value held at an intermediate segment that is no mapping is still there.
RECURSIVE OnlyPathChanged(_, _, _, _)
OnlyPathChanged(before, after, parts, keepIntermediate) ==
    IF ~IsDict(after) THEN FALSE
    ELSE IF ~(DictKeys(before) \subseteq DictKeys(after)) THEN FALSE
    ELSE IF \E k \in DictKeys(before) : k # parts[1] /\ DictAt(after, k) # DictAt(before, k)
    THEN FALSE
    ELSE IF Len(parts) = 1 \/ ~DictHas(before, parts[1]) THEN TRUE
    ELSE IF IsDict(DictAt(before, parts[1]))
    THEN OnlyPathChanged(DictAt(before, parts[1]), DictAt(after, parts[1]), Tail(parts),
                         keepIntermediate)
    ELSE keepIntermediate => DictAt(after, parts[1]) = DictAt(before, parts[1])

SetReturned == last.op \in {"set", "setsame"} /\ ~last.raised

C30_OffPathKept ==
    SetReturned =>
        /\ foam.foam_file = last.before.foam_file
        /\ OnlyPathChanged(last.before.data, foam.data, last.path, FALSE)

====
